---------------------------- MODULE Spec2Model ----------------------------
(***************************************************************************)
(* Islamic inheritance calculator: the share calculator of                 *)
(* heritage_calculator.py (HeritageCalculator) over heir lists built from  *)
(* the Heir records of heir_detector.py.                                   *)
(*                                                                         *)
(* A relation is carried by the name of its RelationType member; the       *)
(* Arabic string that is the member's value is given, letter by letter,    *)
(* by RelationValue, so that the substring tests of the code are computed  *)
(* on the strings the code tests.                                          *)
(* Fractions are pairs <<numerator, denominator>> in lowest terms with a   *)
(* positive denominator, as fractions.Fraction keeps them.                 *)
(***************************************************************************)
EXTENDS Integers, Sequences, FiniteSets, TLC

\* Bound on the number of heir records in a list built record by record.
MaxHeirs == 4

(***************************************************************************)
(* fractions.Fraction                                                      *)
(***************************************************************************)
Abs(x) == IF x < 0 THEN -x ELSE x

RECURSIVE GCD(_, _)
GCD(a, b) == IF b = 0 THEN a ELSE GCD(b, a % b)

\* Fraction(n, d): lowest terms, sign carried by the numerator.
Fraction(n, d) ==
    LET s == IF d < 0 THEN -1 ELSE 1
        g == GCD(Abs(n), Abs(d))
    IN  <<(s * n) \div g, (s * d) \div g>>

FAdd(a, b) == Fraction(a[1] * b[2] + b[1] * a[2], a[2] * b[2])
FSub(a, b) == Fraction(a[1] * b[2] - b[1] * a[2], a[2] * b[2])
FMul(a, b) == Fraction(a[1] * b[1], a[2] * b[2])
FDiv(a, b) == Fraction(a[1] * b[2], a[2] * b[1])
FInt(n) == <<n, 1>>
FPos(a) == a[1] > 0
FZero == <<0, 1>>
FOne == <<1, 1>>

\* str(Fraction): the numerator alone when the denominator is 1.
FractionStr(f) ==
    IF f[2] = 1 THEN ToString(f[1])
    ELSE ToString(f[1]) \o "/" \o ToString(f[2])

\* fraction_to_arabic of the application: the denominator always written.
fraction_to_arabic(f) ==
    IF f[2] = 1 THEN ToString(f[1]) \o "/1"
    ELSE ToString(f[1]) \o "/" \o ToString(f[2])

\* round(float(share) * 100, 2), in hundredths of a percent, computed on the
\* exact rational with ties to even.
PercentHundredths(f) ==
    LET n == f[1] * 10000
        q == n \div f[2]
        r2 == 2 * (n % f[2])
    IN  IF r2 > f[2] THEN q + 1
        ELSE IF r2 < f[2] THEN q
        ELSE IF q % 2 = 0 THEN q ELSE q + 1

(***************************************************************************)
(* RelationType and Heir                                                   *)
(***************************************************************************)
\* The members of RelationType, in the order in which detect_heirs emits
\* the kinds it detects, followed by the members it never emits.
KindOrder ==
    << "SPOUSE_WIFE", "SPOUSE_HUSBAND", "SON", "DAUGHTER", "GRANDDAUGHTER",
       "GRANDDAUGHTER_DAUGHTER", "GRANDFATHER", "FATHER", "MOTHER",
       "BROTHER_FULL", "SISTER_FULL", "BROTHER_PATERNAL", "SISTER_PATERNAL",
       "BROTHER_MATERNAL", "SISTER_MATERNAL", "GRANDMOTHER", "GRANDSON",
       "NEPHEW", "UNCLE_PATERNAL", "NEPHEW_OF_UNCLE" >>

RelationType == {KindOrder[i] : i \in DOMAIN KindOrder}

KindIndex(k) == CHOOSE i \in DOMAIN KindOrder : KindOrder[i] = k

\* The value of each member: its Arabic string, one element per character.
RelationValue(k) ==
    CASE k = "SPOUSE_WIFE" -> <<"alef", "lam", "zain", "waw", "jeem", "teh_marbuta">>
      [] k = "SPOUSE_HUSBAND" -> <<"alef", "lam", "zain", "waw", "jeem">>
      [] k = "SON" -> <<"alef", "lam", "alef", "beh", "noon">>
      [] k = "DAUGHTER" -> <<"alef", "lam", "beh", "noon", "teh">>
      [] k = "FATHER" -> <<"alef", "lam", "hamza_alef", "beh">>
      [] k = "MOTHER" -> <<"alef", "lam", "hamza_alef", "meem">>
      [] k = "GRANDFATHER" -> <<"alef", "lam", "jeem", "dal">>
      [] k = "GRANDMOTHER" -> <<"alef", "lam", "jeem", "dal", "teh_marbuta">>
      [] k = "GRANDSON" ->
            <<"alef", "beh", "noon", "_", "alef", "lam", "alef", "beh", "noon">>
      [] k = "GRANDDAUGHTER" ->
            <<"beh", "noon", "teh", "_", "alef", "lam", "alef", "beh", "noon">>
      [] k = "GRANDDAUGHTER_DAUGHTER" ->
            <<"beh", "noon", "teh", "_", "alef", "lam", "beh", "noon", "teh">>
      [] k = "BROTHER_FULL" ->
            <<"alef", "lam", "hamza_alef", "khah", "_",
              "alef", "lam", "sheen", "qaf", "yeh", "qaf">>
      [] k = "SISTER_FULL" ->
            <<"alef", "lam", "hamza_alef", "khah", "teh", "_",
              "alef", "lam", "sheen", "qaf", "yeh", "qaf", "teh_marbuta">>
      [] k = "BROTHER_PATERNAL" ->
            <<"alef", "lam", "hamza_alef", "khah", "_", "lam", "hamza_alef", "beh">>
      [] k = "SISTER_PATERNAL" ->
            <<"alef", "lam", "hamza_alef", "khah", "teh", "_",
              "lam", "hamza_alef", "beh">>
      [] k = "BROTHER_MATERNAL" ->
            <<"alef", "lam", "hamza_alef", "khah", "_", "lam", "hamza_alef", "meem">>
      [] k = "SISTER_MATERNAL" ->
            <<"alef", "lam", "hamza_alef", "khah", "teh", "_",
              "lam", "hamza_alef", "meem">>
      [] k = "NEPHEW" ->
            <<"alef", "beh", "noon", "_", "alef", "lam", "hamza_alef", "khah">>
      [] k = "UNCLE_PATERNAL" -> <<"alef", "lam", "ain", "meem">>
      [] k = "NEPHEW_OF_UNCLE" ->
            <<"alef", "beh", "noon", "_", "alef", "lam", "ain", "meem">>

\* Python's `sub in s` on strings.
StrContains(sub, s) ==
    \E i \in 0..(Len(s) - Len(sub)) :
        \A j \in 1..Len(sub) : s[i + j] = sub[j]

\* The gender each kind is given when its Heir record is built.
GenderOf(k) ==
    IF k \in {"SPOUSE_WIFE", "DAUGHTER", "MOTHER", "GRANDMOTHER", "GRANDDAUGHTER",
              "GRANDDAUGHTER_DAUGHTER", "SISTER_FULL", "SISTER_PATERNAL",
              "SISTER_MATERNAL"}
    THEN "female" ELSE "male"

\* Heir(name, relation, gender, count=1): is_blocked False, share Fraction(0, 1).
\* The name is the kind's display name with its numeric suffix (0: no suffix).
Heir(k, i) ==
    [name |-> <<k, i>>, relation |-> k, gender |-> GenderOf(k), count |-> 1,
     is_blocked |-> FALSE, share |-> FZero]

\* The records detect_heirs appends for a kind counted n times: one record
\* without suffix when n = 1, else n records suffixed 1..n.
HeirRecords(k, n) ==
    IF n = 1 THEN <<Heir(k, 0)>> ELSE [i \in 1..n |-> Heir(k, i)]


(***************************************************************************)
(* State                                                                   *)
(***************************************************************************)
VARIABLES
    heirs,        \* HeritageCalculator.heirs: the list of Heir records
    steps,        \* HeritageCalculator.steps
    reasoning,    \* HeritageCalculator.reasoning: the derivation trace
    total_fards,  \* calculate's local total_fards
    results,      \* the results mapping calculate returns, by heir name
    pc,           \* position: "construct", then the next pass of calculate
    text,             \* the query text, one element per character
    typed,            \* how many phrases have been typed so far
    deceased_gender,  \* HeirDetector.deceased_gender
    detected_heirs,   \* HeirDetector.detected_heirs, as detect_heirs built it
    calculator,       \* HeritageSystem.calculator: 0 is None, else an object
    response,         \* what HeritageSystem.solve returned last
    returned          \* what the caller kept of an earlier call of calculate

vars == <<heirs, steps, reasoning, total_fards, results, pc,
          text, typed, deceased_gender, detected_heirs, calculator, response,
          returned>>

\* The state of the detector and of the HeritageSystem around it.
system_vars == <<text, typed, deceased_gender, detected_heirs, calculator, response>>

\* One line of the trace: what kind of line, about whom, with which amount.
NoName == <<"", 0>>
Line(tag, who, val) == [tag |-> tag, who |-> who, by |-> "", val |-> val]
BlockedLine(who, by) == [tag |-> "blocked_by", who |-> who, by |-> by, val |-> <<0, 1>>]

\* The elements of a set of indices, ascending (the order a loop over the
\* list meets them).
RECURSIVE SeqOfSet(_)
SeqOfSet(S) ==
    IF S = {} THEN <<>>
    ELSE LET m == CHOOSE x \in S : \A y \in S : x <= y
         IN  <<m>> \o SeqOfSet(S \ {m})

RECURSIVE FSum(_)
FSum(fs) == IF fs = <<>> THEN FZero ELSE FAdd(fs[1], FSum(Tail(fs)))

RECURSIVE Concat(_)
Concat(ss) == IF ss = <<>> THEN <<>> ELSE ss[1] \o Concat(Tail(ss))

Where(hs, rels) == {i \in DOMAIN hs : hs[i].relation \in rels}
NotBlocked(hs) == {i \in DOMAIN hs : ~hs[i].is_blocked}

\* {h.relation for h in self.heirs if not h.is_blocked}
relations_of(hs) == {hs[i].relation : i \in NotBlocked(hs)}

Block(hs, S) ==
    [i \in DOMAIN hs |-> IF i \in S THEN [hs[i] EXCEPT !.is_blocked = TRUE] ELSE hs[i]]

(***************************************************************************)
(* apply_hijab_rules                                                       *)
(***************************************************************************)
\* The sibling kinds rule 2 blocks.
Rule2Blocked == {"BROTHER_FULL", "BROTHER_PATERNAL", "SISTER_FULL", "SISTER_PATERNAL"}

\* The paternal kinds rule 3 blocks.
Rule3Blocked == {"BROTHER_PATERNAL", "SISTER_PATERNAL"}

\* The blocker of rule 2: father, else son, else grandfather; "" when none.
blocker_of(relations) ==
    LET has_father == "FATHER" \in relations
        has_son == "SON" \in relations
        has_grandfather == "GRANDFATHER" \in relations /\ ~has_father
    IN  IF has_father THEN "FATHER"
        ELSE IF has_son THEN "SON"
        ELSE IF has_grandfather THEN "GRANDFATHER"
        ELSE ""

\* apply_hijab_rules with rule 3 set off by a full sister as well as by a
\* full brother.
apply_hijab_rules_full_sister_blocks(hs) ==
    LET relations == relations_of(hs)
        r1 == IF "FATHER" \in relations THEN Where(hs, {"GRANDFATHER"}) ELSE {}
        blocker == blocker_of(relations)
        r2 == IF blocker # "" THEN Where(hs, Rule2Blocked) ELSE {}
        r3 == IF "BROTHER_FULL" \in relations \/ "SISTER_FULL" \in relations
              THEN Where(hs, Rule3Blocked) ELSE {}
        hs1 == Block(Block(Block(hs, r1), r2), r3)
        l1 == [j \in DOMAIN SeqOfSet(r1) |->
                 BlockedLine(hs[SeqOfSet(r1)[j]].name, "FATHER")]
        l2 == [j \in DOMAIN SeqOfSet(r2) |->
                 BlockedLine(hs[SeqOfSet(r2)[j]].name, blocker)]
        l3 == [j \in DOMAIN SeqOfSet(r3) |->
                 BlockedLine(hs[SeqOfSet(r3)[j]].name, "BROTHER_FULL")]
        l4 == IF \A i \in DOMAIN hs1 : ~hs1[i].is_blocked
              THEN <<Line("no_hijab", NoName, FZero)>> ELSE <<>>
    IN  [heirs |-> hs1,
         lines |-> <<Line("hijab_header", NoName, FZero)>> \o l1 \o l2 \o l3 \o l4]

\* apply_hijab_rules with the closing test made on the flags as they stood
\* before the rules ran.
apply_hijab_rules_stale_flags(hs) ==
    LET relations == relations_of(hs)
        r1 == IF "FATHER" \in relations THEN Where(hs, {"GRANDFATHER"}) ELSE {}
        blocker == blocker_of(relations)
        r2 == IF blocker # "" THEN Where(hs, Rule2Blocked) ELSE {}
        r3 == IF "BROTHER_FULL" \in relations THEN Where(hs, Rule3Blocked) ELSE {}
        hs1 == Block(Block(Block(hs, r1), r2), r3)
        l1 == [j \in DOMAIN SeqOfSet(r1) |->
                 BlockedLine(hs[SeqOfSet(r1)[j]].name, "FATHER")]
        l2 == [j \in DOMAIN SeqOfSet(r2) |->
                 BlockedLine(hs[SeqOfSet(r2)[j]].name, blocker)]
        l3 == [j \in DOMAIN SeqOfSet(r3) |->
                 BlockedLine(hs[SeqOfSet(r3)[j]].name, "BROTHER_FULL")]
        l4 == IF \A i \in DOMAIN hs : ~hs[i].is_blocked
              THEN <<Line("no_hijab", NoName, FZero)>> ELSE <<>>
    IN  [heirs |-> hs1,
         lines |-> <<Line("hijab_header", NoName, FZero)>> \o l1 \o l2 \o l3 \o l4]

\* The heirs and the trace lines after the three rules; relations is read
\* once, before any rule runs.
apply_hijab_rules(hs) ==
    LET relations == relations_of(hs)
        r1 == IF "FATHER" \in relations THEN Where(hs, {"GRANDFATHER"}) ELSE {}
        blocker == blocker_of(relations)
        r2 == IF blocker # "" THEN Where(hs, Rule2Blocked) ELSE {}
        r3 == IF "BROTHER_FULL" \in relations THEN Where(hs, Rule3Blocked) ELSE {}
        hs1 == Block(Block(Block(hs, r1), r2), r3)
        l1 == [j \in DOMAIN SeqOfSet(r1) |->
                 BlockedLine(hs[SeqOfSet(r1)[j]].name, "FATHER")]
        l2 == [j \in DOMAIN SeqOfSet(r2) |->
                 BlockedLine(hs[SeqOfSet(r2)[j]].name, blocker)]
        l3 == [j \in DOMAIN SeqOfSet(r3) |->
                 BlockedLine(hs[SeqOfSet(r3)[j]].name, "BROTHER_FULL")]
        l4 == IF \A i \in DOMAIN hs1 : ~hs1[i].is_blocked
              THEN <<Line("no_hijab", NoName, FZero)>> ELSE <<>>
    IN  [heirs |-> hs1,
         lines |-> <<Line("hijab_header", NoName, FZero)>> \o l1 \o l2 \o l3 \o l4]

(***************************************************************************)
(* check_umariyyatayn, solve_umariyyatayn                                  *)
(***************************************************************************)
\* check_umariyyatayn without the count of non-blocked heirs.
check_umariyyatayn_no_count(hs) ==
    LET relations == relations_of(hs)
    IN  \/ relations = {"SPOUSE_WIFE", "FATHER", "MOTHER"}
        \/ relations = {"SPOUSE_HUSBAND", "FATHER", "MOTHER"}

check_umariyyatayn(hs) ==
    LET relations == relations_of(hs)
        case1 == relations = {"SPOUSE_WIFE", "FATHER", "MOTHER"}
        case2 == relations = {"SPOUSE_HUSBAND", "FATHER", "MOTHER"}
        num_heirs == Cardinality(NotBlocked(hs))
    IN  IF "FATHER" \notin relations THEN FALSE
        ELSE (case1 \/ case2) /\ num_heirs = 3

\* The shares are written to every heir of the three kinds, whether or not
\* it is blocked; the total returned is Fraction(1, 1).
solve_umariyyatayn(hs) ==
    LET relations == relations_of(hs)
        with_wife == "SPOUSE_WIFE" \in relations
        spouse == IF with_wife THEN "SPOUSE_WIFE" ELSE "SPOUSE_HUSBAND"
        spouse_share == IF with_wife THEN Fraction(1, 4) ELSE Fraction(1, 2)
        remainder == IF with_wife THEN Fraction(3, 4) ELSE Fraction(1, 2)
        mother_share == FDiv(remainder, FInt(3))
        father_share == FDiv(FMul(remainder, FInt(2)), FInt(3))
    IN  [heirs |->
            [i \in DOMAIN hs |->
                IF hs[i].relation = spouse THEN [hs[i] EXCEPT !.share = spouse_share]
                ELSE IF hs[i].relation = "MOTHER" THEN [hs[i] EXCEPT !.share = mother_share]
                ELSE IF hs[i].relation = "FATHER" THEN [hs[i] EXCEPT !.share = father_share]
                ELSE hs[i]],
         lines |->
            << Line("umariyyatayn_header", NoName, FZero),
               Line("umariyyatayn_famous", NoName, FZero),
               Line(IF with_wife THEN "umariyya_first" ELSE "umariyya_second", NoName, FZero),
               Line("umariyya_spouse", <<spouse, 0>>, spouse_share),
               Line("umariyya_remainder", NoName, remainder),
               Line("umariyya_mother", <<"MOTHER", 0>>, mother_share),
               Line("umariyya_father", <<"FATHER", 0>>, father_share) >>,
         total |-> Fraction(1, 1)]

(***************************************************************************)
(* calculate_fixed_shares                                                  *)
(***************************************************************************)
\* has_children_of with the grandchildren kinds counted as children.
has_children_of_grandchildren(hs) ==
    \E i \in NotBlocked(hs) :
        hs[i].relation \in {"SON", "DAUGHTER", "GRANDSON", "GRANDDAUGHTER",
                            "GRANDDAUGHTER_DAUGHTER"}

\* any(h.relation in ["الابن", "البنت"] for h in self.heirs if not h.is_blocked)
has_children_of(hs) ==
    \E i \in NotBlocked(hs) : hs[i].relation \in {"SON", "DAUGHTER"}

\* The hamza-alef + khah ("akh") and hamza-alef + khah + teh ("ukht")
\* substrings the mother's rule looks for in a relation string.
Akh == <<"hamza_alef", "khah">>
Ukht == <<"hamza_alef", "khah", "teh">>

\* num_siblings_of with the blocked heirs counted too.
num_siblings_of_blocked_too(hs) ==
    Cardinality({i \in DOMAIN hs :
        \/ StrContains(Akh, RelationValue(hs[i].relation))
        \/ StrContains(Ukht, RelationValue(hs[i].relation))})

\* sum(1 for h in self.heirs if ("أخ" in h.relation or "أخت" in h.relation)
\*                              and not h.is_blocked)
num_siblings_of(hs) ==
    Cardinality({i \in NotBlocked(hs) :
        \/ StrContains(Akh, RelationValue(hs[i].relation))
        \/ StrContains(Ukht, RelationValue(hs[i].relation))})

num_daughters_of(hs) == Cardinality(Where(hs, {"DAUGHTER"}) \cap NotBlocked(hs))
\* num_sons_of counting the son's-son relation string instead of the son's.
num_sons_of_grandson(hs) == Cardinality(Where(hs, {"GRANDSON"}) \cap NotBlocked(hs))

num_sons_of(hs) == Cardinality(Where(hs, {"SON"}) \cap NotBlocked(hs))

\* The body of the loop for one heir: whether a share is assigned, which
\* one, and the trace lines appended.
NoFard == [assigned |-> FALSE, share |-> FZero, lines |-> <<>>]
Fard(share, lines) == [assigned |-> TRUE, share |-> share, lines |-> lines]

\* The if/elif chain on the relation of a heir that is not blocked.
fard_by_relation(hs, i, has_children) ==
    LET relation == hs[i].relation
        who == hs[i].name
    IN  IF relation = "SPOUSE_WIFE" THEN
            LET share == IF has_children THEN Fraction(1, 8) ELSE Fraction(1, 4)
            IN  Fard(share, <<Line("wife", who, share), Line("wife_verse", who, share)>>)
        ELSE IF relation = "SPOUSE_HUSBAND" THEN
            LET share == IF has_children THEN Fraction(1, 4) ELSE Fraction(1, 2)
            IN  Fard(share, <<Line("husband", who, share)>>)
        ELSE IF relation = "DAUGHTER" THEN
            IF num_sons_of(hs) = 0 THEN
                IF num_daughters_of(hs) = 1
                THEN Fard(Fraction(1, 2), <<Line("one_daughter", who, Fraction(1, 2))>>)
                ELSE LET share == FDiv(Fraction(2, 3), FInt(num_daughters_of(hs)))
                     IN  Fard(share, <<Line("daughters", who, share)>>)
            ELSE NoFard
        ELSE IF relation = "FATHER" THEN
            IF has_children
            THEN Fard(Fraction(1, 6), <<Line("father_sixth", who, Fraction(1, 6))>>)
            ELSE NoFard
        ELSE IF relation = "GRANDFATHER" THEN
            IF has_children
            THEN Fard(Fraction(1, 6), <<Line("grandfather_sixth", who, Fraction(1, 6))>>)
            ELSE NoFard
        ELSE IF relation = "MOTHER" THEN
            IF has_children \/ num_siblings_of(hs) >= 2
            THEN Fard(Fraction(1, 6), <<Line("mother_sixth", who, Fraction(1, 6))>>)
            ELSE Fard(Fraction(1, 3), <<Line("mother_third", who, Fraction(1, 3))>>)
        ELSE NoFard

\* The loop body without the skip of blocked heirs.
fixed_share_of_no_skip(hs, i, has_children) == fard_by_relation(hs, i, has_children)

\* if heir.is_blocked: continue
fixed_share_of(hs, i, has_children) ==
    IF hs[i].is_blocked THEN NoFard ELSE fard_by_relation(hs, i, has_children)

\* The general furud pass: the loop over the heirs in list order.
general_fixed_shares(hs) ==
    LET has_children == has_children_of(hs)
        f == [i \in DOMAIN hs |-> fixed_share_of(hs, i, has_children)]
        total_shares == FSum([i \in DOMAIN hs |-> f[i].share])
    IN  [heirs |-> [i \in DOMAIN hs |->
                      IF f[i].assigned THEN [hs[i] EXCEPT !.share = f[i].share]
                      ELSE hs[i]],
         lines |-> << Line("fards_header", NoName, FZero),
                      Line(IF has_children THEN "has_children_yes" ELSE "has_children_no",
                           NoName, FZero) >>
                   \o Concat([i \in DOMAIN hs |-> f[i].lines])
                   \o << Line("fards_total", NoName, total_shares) >>,
         total |-> total_shares]

calculate_fixed_shares(hs) ==
    IF check_umariyyatayn(hs) THEN solve_umariyyatayn(hs)
    ELSE general_fixed_shares(hs)

(***************************************************************************)
(* distribute_asaba                                                        *)
(***************************************************************************)
SetShares(hs, S, share) ==
    [i \in DOMAIN hs |-> IF i \in S THEN [hs[i] EXCEPT !.share = share] ELSE hs[i]]

\* two_to_one with the units counted for all but handed to the males only.
two_to_one_males_only(hs, males, females, remainder, tag) ==
    LET total_units == Cardinality(males) * 2 + Cardinality(females)
        unit_share == FDiv(remainder, FInt(total_units))
    IN  [heirs |-> SetShares(hs, males, FMul(unit_share, FInt(2))),
         lines |-> << Line(tag, NoName, FZero),
                      Line("count_males", NoName, FInt(Cardinality(males))),
                      Line("count_females", NoName, FInt(Cardinality(females))) >>]

\* two_to_one with every member of the group given one unit.
two_to_one_equal(hs, males, females, remainder, tag) ==
    LET total_units == Cardinality(males) * 2 + Cardinality(females)
        unit_share == FDiv(remainder, FInt(total_units))
    IN  [heirs |-> SetShares(hs, males \cup females, unit_share),
         lines |-> << Line(tag, NoName, FZero),
                      Line("count_males", NoName, FInt(Cardinality(males))),
                      Line("count_females", NoName, FInt(Cardinality(females))) >>]

\* two_to_one with the unit taken per head instead of per unit.
two_to_one_per_head(hs, males, females, remainder, tag) ==
    LET total_units == Cardinality(males) + Cardinality(females)
        unit_share == FDiv(remainder, FInt(total_units))
    IN  [heirs |-> SetShares(SetShares(hs, males, FMul(unit_share, FInt(2))),
                             females, unit_share),
         lines |-> << Line(tag, NoName, FZero),
                      Line("count_males", NoName, FInt(Cardinality(males))),
                      Line("count_females", NoName, FInt(Cardinality(females))) >>]

\* A group of male and female residuaries sharing the remainder 2:1.
two_to_one(hs, males, females, remainder, tag) ==
    LET total_units == Cardinality(males) * 2 + Cardinality(females)
        unit_share == FDiv(remainder, FInt(total_units))
    IN  [heirs |-> SetShares(SetShares(hs, males, FMul(unit_share, FInt(2))),
                             females, unit_share),
         lines |-> << Line(tag, NoName, FZero),
                      Line("count_males", NoName, FInt(Cardinality(males))),
                      Line("count_females", NoName, FInt(Cardinality(females))) >>]

\* takes_remainder with the remainder overwriting a fard already held.
takes_remainder_overwrite(hs, i, remainder, tag) ==
    [heirs |-> [hs EXCEPT ![i].share = remainder],
     lines |-> << Line(tag \o "_inherits_remainder", hs[i].name, remainder) >>]

\* takes_remainder with a heir that holds a fard left without the remainder.
takes_remainder_fard_only(hs, i, remainder, tag) ==
    IF FPos(hs[i].share)
    THEN [heirs |-> hs,
          lines |-> << Line(tag \o "_has_fard", hs[i].name, hs[i].share) >>]
    ELSE [heirs |-> [hs EXCEPT ![i].share = remainder],
          lines |-> << Line(tag \o "_inherits_remainder", hs[i].name, remainder) >>]

\* The father or the grandfather: i is the first such heir in the list.
takes_remainder(hs, i, remainder, tag) ==
    IF FPos(hs[i].share)
    THEN LET sum == FAdd(hs[i].share, remainder)
         IN  [heirs |-> [hs EXCEPT ![i].share = sum],
              lines |-> << Line(tag \o "_has_fard", hs[i].name, hs[i].share),
                           Line(tag \o "_takes_remainder", hs[i].name, remainder),
                           Line(tag \o "_sum", hs[i].name, sum) >>]
    ELSE [heirs |-> [hs EXCEPT ![i].share = remainder],
          lines |-> << Line(tag \o "_inherits_remainder", hs[i].name, remainder) >>]

First(S) == CHOOSE x \in S : \A y \in S : x <= y

\* no_residuary with the remainder returned to the heirs that hold a share,
\* each in proportion to its share (radd).
no_residuary_radd(hs, remainder) ==
    LET held == FSub(FInt(1), remainder)
    IN  [heirs |-> [i \in DOMAIN hs |->
                      IF hs[i].is_blocked \/ ~FPos(held) THEN hs[i]
                      ELSE [hs[i] EXCEPT !.share = FDiv(hs[i].share, held)]],
         lines |-> <<>>]

\* No group has a member: the function ends without touching any share.
no_residuary(hs, remainder) == [heirs |-> hs, lines |-> <<>>]

\* distribute_asaba with the father tried before the children.
distribute_asaba_father_first(hs, remainder) ==
    LET nb == NotBlocked(hs)
        unshared == {i \in DOMAIN hs : hs[i].share = FZero}
        sons == Where(hs, {"SON"}) \cap nb
        daughters == Where(hs, {"DAUGHTER"}) \cap nb \cap unshared
        fathers == Where(hs, {"FATHER"}) \cap nb
        grandfathers == Where(hs, {"GRANDFATHER"}) \cap nb
        brothers_full == Where(hs, {"BROTHER_FULL"}) \cap nb
        sisters_full == Where(hs, {"SISTER_FULL"}) \cap nb \cap unshared
        brothers_paternal == Where(hs, {"BROTHER_PATERNAL"}) \cap nb
        sisters_paternal == Where(hs, {"SISTER_PATERNAL"}) \cap nb \cap unshared
        header == << Line("asaba_header", NoName, remainder) >>
        r == IF fathers # {} /\ FPos(remainder)
             THEN takes_remainder(hs, First(fathers), remainder, "father")
             ELSE IF sons # {} \/ daughters # {}
             THEN two_to_one(hs, sons, daughters, remainder, "children_asaba")
             ELSE IF grandfathers # {} /\ FPos(remainder)
             THEN takes_remainder(hs, First(grandfathers), remainder, "grandfather")
             ELSE IF brothers_full # {} \/ sisters_full # {}
             THEN two_to_one(hs, brothers_full, sisters_full, remainder, "full_asaba")
             ELSE IF brothers_paternal # {} \/ sisters_paternal # {}
             THEN two_to_one(hs, brothers_paternal, sisters_paternal, remainder,
                             "paternal_asaba")
             ELSE no_residuary(hs, remainder)
    IN  [heirs |-> r.heirs, lines |-> header \o r.lines]

distribute_asaba(hs, remainder) ==
    LET nb == NotBlocked(hs)
        unshared == {i \in DOMAIN hs : hs[i].share = FZero}
        sons == Where(hs, {"SON"}) \cap nb
        daughters == Where(hs, {"DAUGHTER"}) \cap nb \cap unshared
        fathers == Where(hs, {"FATHER"}) \cap nb
        grandfathers == Where(hs, {"GRANDFATHER"}) \cap nb
        brothers_full == Where(hs, {"BROTHER_FULL"}) \cap nb
        sisters_full == Where(hs, {"SISTER_FULL"}) \cap nb \cap unshared
        brothers_paternal == Where(hs, {"BROTHER_PATERNAL"}) \cap nb
        sisters_paternal == Where(hs, {"SISTER_PATERNAL"}) \cap nb \cap unshared
        header == << Line("asaba_header", NoName, remainder) >>
        r == IF sons # {} \/ daughters # {}
             THEN two_to_one(hs, sons, daughters, remainder, "children_asaba")
             ELSE IF fathers # {} /\ FPos(remainder)
             THEN takes_remainder(hs, First(fathers), remainder, "father")
             ELSE IF grandfathers # {} /\ FPos(remainder)
             THEN takes_remainder(hs, First(grandfathers), remainder, "grandfather")
             ELSE IF brothers_full # {} \/ sisters_full # {}
             THEN two_to_one(hs, brothers_full, sisters_full, remainder, "full_asaba")
             ELSE IF brothers_paternal # {} \/ sisters_paternal # {}
             THEN two_to_one(hs, brothers_paternal, sisters_paternal, remainder,
                             "paternal_asaba")
             ELSE no_residuary(hs, remainder)
    IN  [heirs |-> r.heirs, lines |-> header \o r.lines]

(***************************************************************************)
(* get_total_distributed, validate_distribution, the results mapping       *)
(***************************************************************************)
get_total_distributed(hs) ==
    FSum([j \in DOMAIN SeqOfSet(NotBlocked(hs)) |-> hs[SeqOfSet(NotBlocked(hs))[j]].share])

validate_distribution(hs) == get_total_distributed(hs) = Fraction(1, 1)

\* The entry of one heir: the blocked sentinel or the share record.
Blocked == [sentinel |-> "mahjoub"]

result_entry(h) ==
    IF h.is_blocked THEN Blocked
    ELSE [fraction |-> FractionStr(h.share),
          percentage |-> PercentHundredths(h.share),
          relation |-> h.relation]

\* results[heir.name] = ... for each heir in order: a later heir of the same
\* name overwrites an earlier one.
results_of(hs) ==
    [n \in {hs[i].name : i \in DOMAIN hs} |->
        result_entry(hs[CHOOSE i \in DOMAIN hs :
                            /\ hs[i].name = n
                            /\ \A j \in DOMAIN hs : hs[j].name = n => j <= i])]

(***************************************************************************)
(* The caller building the heir list, and calculate, pass by pass          *)
(***************************************************************************)
\* What the caller holds before calculate has returned once.
NoReturn == [called |-> FALSE, results |-> <<>>, heirs |-> <<>>]

\* What solve has returned before its first call.
NoResponse == [returned |-> FALSE, error |-> FALSE, results |-> <<>>,
               reasoning |-> <<>>, summary |-> FALSE]

Init ==
    /\ heirs = <<>>
    /\ steps = <<>>
    /\ reasoning = <<>>
    /\ total_fards = FZero
    /\ results = <<>>
    /\ pc = "construct"
    /\ text = <<>>
    /\ typed = 0
    /\ deceased_gender = "none"
    /\ detected_heirs = <<>>
    /\ calculator = 0
    /\ response = NoResponse
    /\ returned = NoReturn

\* The heir list is built kind by kind, each kind at most once and in
\* KindOrder, with n records for a kind counted n times.
AppendHeirs(k, n) ==
    /\ pc = "construct"
    /\ Len(heirs) + n <= MaxHeirs
    /\ IF heirs = <<>> THEN TRUE
       ELSE KindIndex(heirs[Len(heirs)].relation) < KindIndex(k)
    /\ heirs' = heirs \o HeirRecords(k, n)
    /\ UNCHANGED <<steps, reasoning, total_fards, results, pc>>
    /\ UNCHANGED system_vars
    /\ UNCHANGED returned

\* The heir lists detect_heirs returns for the three test_cases of the
\* calculator's __main__: wife with two sons and two daughters; wife, father
\* and mother; husband, father and mother.
test_cases ==
    << HeirRecords("SPOUSE_WIFE", 1) \o HeirRecords("SON", 2) \o HeirRecords("DAUGHTER", 2),
       HeirRecords("SPOUSE_WIFE", 1) \o HeirRecords("FATHER", 1) \o HeirRecords("MOTHER", 1),
       HeirRecords("SPOUSE_HUSBAND", 1) \o HeirRecords("FATHER", 1) \o HeirRecords("MOTHER", 1) >>

SolveTestCase(t) ==
    /\ pc = "construct"
    /\ heirs = <<>>
    /\ heirs' = test_cases[t]
    /\ UNCHANGED <<steps, reasoning, total_fards, results, pc>>
    /\ UNCHANGED system_vars
    /\ UNCHANGED returned

\* HeritageCalculator(heirs) and the first lines of calculate.
CalculateStart ==
    /\ pc = "construct"
    /\ steps' = <<>>
    /\ reasoning' = << Line("start", NoName, FZero) >>
    /\ pc' = "hijab"
    /\ UNCHANGED <<heirs, total_fards, results>>
    /\ UNCHANGED system_vars
    /\ UNCHANGED returned

ApplyHijabRules ==
    /\ pc = "hijab"
    /\ LET r == apply_hijab_rules(heirs)
       IN  /\ heirs' = r.heirs
           /\ reasoning' = reasoning \o r.lines
    /\ pc' = "fards"
    /\ UNCHANGED <<steps, total_fards, results>>
    /\ UNCHANGED system_vars
    /\ UNCHANGED returned

CalculateFixedShares ==
    /\ pc = "fards"
    /\ LET r == calculate_fixed_shares(heirs)
       IN  /\ heirs' = r.heirs
           /\ reasoning' = reasoning \o r.lines
           /\ total_fards' = r.total
    /\ pc' = "asaba"
    /\ UNCHANGED <<steps, results>>
    /\ UNCHANGED system_vars
    /\ UNCHANGED returned

\* remainder = 1 - total_fards
remainder_of(total) == FSub(FInt(1), total)

runs_asaba(hs, total) == ~check_umariyyatayn(hs) /\ FPos(remainder_of(total))

DistributeAsaba ==
    /\ pc = "asaba"
    /\ runs_asaba(heirs, total_fards)
    /\ LET r == distribute_asaba(heirs, remainder_of(total_fards))
       IN  /\ heirs' = r.heirs
           /\ reasoning' = reasoning \o r.lines
    /\ pc' = "results"
    /\ UNCHANGED <<steps, total_fards, results>>
    /\ UNCHANGED system_vars
    /\ UNCHANGED returned

SkipAsaba ==
    /\ pc = "asaba"
    /\ ~runs_asaba(heirs, total_fards)
    /\ pc' = "results"
    /\ UNCHANGED <<heirs, steps, reasoning, total_fards, results>>
    /\ UNCHANGED system_vars
    /\ UNCHANGED returned

BuildResults ==
    /\ pc = "results"
    /\ reasoning' = reasoning \o << Line("final_results", NoName, FZero) >>
    /\ results' = results_of(heirs)
    /\ pc' = "done"
    /\ UNCHANGED <<heirs, steps, total_fards>>
    /\ UNCHANGED system_vars
    /\ UNCHANGED returned

Next ==
    \/ \E k \in RelationType, n \in 1..MaxHeirs : AppendHeirs(k, n)
    \/ \E t \in DOMAIN test_cases : SolveTestCase(t)
    \/ CalculateStart
    \/ ApplyHijabRules
    \/ CalculateFixedShares
    \/ DistributeAsaba
    \/ SkipAsaba
    \/ BuildResults

Spec == Init /\ [][Next]_vars

\* The caller keeps what calculate returned and the heir records as the call
\* left them, then calls calculate again on the same calculator: steps and
\* reasoning start afresh, the heir records are not touched.
CalculateAgain ==
    /\ pc = "done"
    /\ ~returned.called
    /\ returned' = [called |-> TRUE, results |-> results, heirs |-> heirs]
    /\ steps' = <<>>
    /\ reasoning' = << Line("start", NoName, FZero) >>
    /\ pc' = "hijab"
    /\ UNCHANGED <<heirs, total_fards, results>>
    /\ UNCHANGED system_vars

NextTwice ==
    \/ Next
    \/ CalculateAgain

\* One calculator, calculate called on it once or twice.
SpecTwice == Init /\ [][NextTwice]_vars

(***************************************************************************)
(* Python's re and str on the query text                                   *)
(***************************************************************************)
\* A text is a sequence of characters: the Arabic letters by name, the
\* decimal digits and the space.  A position is the number of characters
\* before it, from 0 to Len(txt).
DigitChars == <<"0", "1", "2", "3", "4", "5", "6", "7", "8", "9">>

IsDigit(c) == c \in {DigitChars[v] : v \in DOMAIN DigitChars}

DigitValue(c) == (CHOOSE v \in DOMAIN DigitChars : DigitChars[v] = c) - 1

\* \s: the space is the only whitespace of a text.
IsSpace(c) == c = " "

\* \w: every letter and every digit is a word character.
IsWord(c) == ~IsSpace(c)

\* str.lower: no character of a text has a lower-case form other than itself.
lower(txt) == txt

\* The elements a pattern is a sequence of.
Lit(s) == [t |-> "lit", s |-> s]
Alt(ss) == [t |-> "alt", alts |-> ss]
Digits == [t |-> "digits"]
Spaces0 == [t |-> "spaces0"]
Spaces1 == [t |-> "spaces1"]
Space == [t |-> "space"]
WordBoundary == [t |-> "boundary"]
NotAhead(p) == [t |-> "not_ahead", p |-> p]
NotBehind(p) == [t |-> "not_behind", p |-> p]

\* s stands in txt right after position i.
HasAt(s, txt, i) ==
    /\ i + Len(s) <= Len(txt)
    /\ \A j \in 1..Len(s) : txt[i + j] = s[j]

SetMax(S) == CHOOSE x \in S : \A y \in S : y <= x

SetMin(S) == CHOOSE x \in S : \A y \in S : x <= y

\* The length of the longest run of digits, of spaces, after position i.
RECURSIVE DigitRun(_, _)
DigitRun(txt, i) ==
    IF i < Len(txt) /\ IsDigit(txt[i + 1]) THEN 1 + DigitRun(txt, i + 1) ELSE 0

RECURSIVE SpaceRun(_, _)
SpaceRun(txt, i) ==
    IF i < Len(txt) /\ IsSpace(txt[i + 1]) THEN 1 + SpaceRun(txt, i + 1) ELSE 0

\* The number of characters a pattern of literals and single spaces takes:
\* what stands behind a position is looked for that many characters back.
RECURSIVE Width(_)
Width(p) ==
    IF p = <<>> THEN 0
    ELSE (IF Head(p).t = "lit" THEN Len(Head(p).s) ELSE 1) + Width(Tail(p))

\* \b: exactly one side of position i is a word character.
AtBoundary(txt, i) ==
    (i >= 1 /\ IsWord(txt[i])) # (i < Len(txt) /\ IsWord(txt[i + 1]))

\* The position where a match of pat[k..] that starts at position i ends,
\* or -1 when there is none.  Alternatives are tried in order.  A run of
\* digits or spaces is taken whole: in every pattern of the detector what
\* follows a run starts with a character the run cannot hold.
RECURSIVE Match(_, _, _, _)
Match(pat, k, txt, i) ==
    IF k > Len(pat) THEN i
    ELSE LET e == pat[k] IN
      CASE e.t = "lit" ->
             IF HasAt(e.s, txt, i) THEN Match(pat, k + 1, txt, i + Len(e.s)) ELSE -1
        [] e.t = "alt" ->
             LET ends == [a \in DOMAIN e.alts |->
                            IF HasAt(e.alts[a], txt, i)
                            THEN Match(pat, k + 1, txt, i + Len(e.alts[a]))
                            ELSE -1]
                 ok == {a \in DOMAIN e.alts : ends[a] # -1}
             IN  IF ok = {} THEN -1 ELSE ends[SetMin(ok)]
        [] e.t = "digits" ->
             LET n == DigitRun(txt, i)
             IN  IF n = 0 THEN -1 ELSE Match(pat, k + 1, txt, i + n)
        [] e.t = "spaces0" -> Match(pat, k + 1, txt, i + SpaceRun(txt, i))
        [] e.t = "spaces1" ->
             LET n == SpaceRun(txt, i)
             IN  IF n = 0 THEN -1 ELSE Match(pat, k + 1, txt, i + n)
        [] e.t = "space" ->
             IF i < Len(txt) /\ IsSpace(txt[i + 1])
             THEN Match(pat, k + 1, txt, i + 1) ELSE -1
        [] e.t = "boundary" ->
             IF AtBoundary(txt, i) THEN Match(pat, k + 1, txt, i) ELSE -1
        [] e.t = "not_ahead" ->
             IF Match(e.p, 1, txt, i) # -1 THEN -1 ELSE Match(pat, k + 1, txt, i)
        [] e.t = "not_behind" ->
             IF i >= Width(e.p) /\ Match(e.p, 1, txt, i - Width(e.p)) = i THEN -1
             ELSE Match(pat, k + 1, txt, i)

\* re.search(pattern, txt) finds a match.
search(pat, txt) == \E i \in 0..Len(txt) : Match(pat, 1, txt, i) # -1

\* re.finditer(pattern, txt): the matched substrings, leftmost first and
\* without overlap, scanning from position i.  No pattern of the detector
\* matches the empty string.
RECURSIVE finditer(_, _, _)
finditer(pat, txt, i) ==
    IF i >= Len(txt) THEN <<>>
    ELSE LET e == Match(pat, 1, txt, i)
         IN  IF e = -1 \/ e = i THEN finditer(pat, txt, i + 1)
             ELSE <<SubSeq(txt, i + 1, e)>> \o finditer(pat, txt, e)

\* any(x in s for x in xs)
ContainsAny(xs, s) == \E j \in DOMAIN xs : StrContains(xs[j], s)

(***************************************************************************)
(* HeirDetector                                                            *)
(***************************************************************************)
\* The verb forms and nouns that mark a female decedent.
female_indicators ==
    <<
       <<"teh", "waw", "feh", "yeh", "teh">>,   \* توفيت
       <<"meem", "alef", "teh", "teh">>,   \* ماتت
       <<"teh", "waw", "feh", "teh">>,   \* توفت
       <<"teh", "alef", "reh", "kaf", "teh_marbuta">>,   \* تاركة
       <<"alef", "meem", "reh", "hamza_alef", "teh_marbuta">>   \* امرأة
    >>

\* The verb forms and words that mark a male decedent.
male_indicators ==
    <<
       <<"teh", "waw", "feh", "yeh">>,   \* توفي
       <<"meem", "alef", "teh">>,   \* مات
       <<"teh", "waw", "feh", "alef_maksura">>,   \* توفى
       <<"teh", "alef", "reh", "kaf", "alef">>,   \* تاركا
       <<"waw", "teh", "reh", "kaf">>,   \* وترك
       <<"reh", "jeem", "lam">>,   \* رجل
       <<"ain", "noon">>   \* عن
    >>

\* The forms of the word wife.
wife_patterns ==
    <<
       <<"zain", "waw", "jeem", "teh_marbuta">>,   \* زوجة
       <<"zain", "waw", "jeem", "teh", "heh">>,   \* زوجته
       <<"waw", "zain", "waw", "jeem", "teh_marbuta">>,   \* وزوجة
       <<"waw", "zain", "waw", "jeem", "teh", "heh">>   \* وزوجته
    >>

\* The word wife and the word husband.
zawja == <<"zain", "waw", "jeem", "teh_marbuta">>
zawj == <<"zain", "waw", "jeem">>

\* patterns['numbers']: the number words, in the order the dictionary keeps.
numbers ==
    <<
       [word |-> <<"waw", "alef", "hah", "dal">>, num |-> 1],   \* واحد
       [word |-> <<"waw", "alef", "hah", "dal", "teh_marbuta">>, num |-> 1],   \* واحدة
       [word |-> <<"alef", "theh", "noon", "alef", "noon">>, num |-> 2],   \* اثنان
       [word |-> <<"alef", "theh", "noon", "yeh", "noon">>, num |-> 2],   \* اثنين
       [word |-> <<"alef", "theh", "noon", "teh", "alef", "noon">>, num |-> 2],   \* اثنتان
       [word |-> <<"alef", "theh", "noon", "teh", "yeh", "noon">>, num |-> 2],   \* اثنتين
       [word |-> <<"theh", "lam", "alef", "theh", "teh_marbuta">>, num |-> 3],   \* ثلاثة
       [word |-> <<"theh", "lam", "alef", "theh">>, num |-> 3],   \* ثلاث
       [word |-> <<"hamza_alef", "reh", "beh", "ain", "teh_marbuta">>, num |-> 4],   \* أربعة
       [word |-> <<"hamza_alef", "reh", "beh", "ain">>, num |-> 4],   \* أربع
       [word |-> <<"khah", "meem", "seen", "teh_marbuta">>, num |-> 5],   \* خمسة
       [word |-> <<"khah", "meem", "seen">>, num |-> 5],   \* خمس
       [word |-> <<"seen", "teh", "teh_marbuta">>, num |-> 6],   \* ستة
       [word |-> <<"seen", "teh">>, num |-> 6],   \* ست
       [word |-> <<"seen", "beh", "ain", "teh_marbuta">>, num |-> 7],   \* سبعة
       [word |-> <<"seen", "beh", "ain">>, num |-> 7],   \* سبع
       [word |-> <<"theh", "meem", "alef", "noon", "yeh", "teh_marbuta">>, num |-> 8],   \* ثمانية
       [word |-> <<"theh", "meem", "alef", "noon", "yeh">>, num |-> 8],   \* ثماني
       [word |-> <<"teh", "seen", "ain", "teh_marbuta">>, num |-> 9],   \* تسعة
       [word |-> <<"teh", "seen", "ain">>, num |-> 9],   \* تسع
       [word |-> <<"ain", "sheen", "reh", "teh_marbuta">>, num |-> 10],   \* عشرة
       [word |-> <<"ain", "sheen", "reh">>, num |-> 10]   \* عشر
    >>

\* The dual forms extract_number_from_text counts as two.
dual_forms ==
    <<
       <<"waw", "lam", "dal", "alef", "noon">>,   \* ولدان
       <<"waw", "lam", "dal", "yeh", "noon">>,   \* ولدين
       <<"beh", "noon", "teh", "alef", "noon">>,   \* بنتان
       <<"beh", "noon", "teh", "yeh", "noon">>,   \* بنتين
       <<"alef", "theh", "noon", "alef", "noon">>,   \* اثنان
       <<"alef", "theh", "noon", "yeh", "noon">>,   \* اثنين
       <<"alef", "theh", "noon", "teh", "alef", "noon">>,   \* اثنتان
       <<"alef", "theh", "noon", "teh", "yeh", "noon">>   \* اثنتين
    >>

\* patterns['son']: the expressions that name sons.
son_patterns ==
    <<
       \* (\d+)\s*أبناء
       <<Digits, Spaces0, Lit(<<"hamza_alef", "beh", "noon", "alef",
         "hamza">>)>>,
       \* (\d+)\s*ابن
       <<Digits, Spaces0, Lit(<<"alef", "beh", "noon">>)>>,
       \* (ثلاثة|أربعة|خمسة|ستة|سبعة|ثمانية|تسعة|عشرة)\s*أبناء
       <<Alt(<<<<"theh", "lam", "alef", "theh", "teh_marbuta">>,
         <<"hamza_alef", "reh", "beh", "ain", "teh_marbuta">>, <<"khah",
         "meem", "seen", "teh_marbuta">>, <<"seen", "teh", "teh_marbuta">>,
         <<"seen", "beh", "ain", "teh_marbuta">>, <<"theh", "meem", "alef",
         "noon", "yeh", "teh_marbuta">>, <<"teh", "seen", "ain",
         "teh_marbuta">>, <<"ain", "sheen", "reh", "teh_marbuta">>>>),
         Spaces0, Lit(<<"hamza_alef", "beh", "noon", "alef", "hamza">>)>>,
       \* (اثنان|اثنين)\s*من\s*الأبناء
       <<Alt(<<<<"alef", "theh", "noon", "alef", "noon">>, <<"alef", "theh",
         "noon", "yeh", "noon">>>>), Spaces0, Lit(<<"meem", "noon">>),
         Spaces0, Lit(<<"alef", "lam", "hamza_alef", "beh", "noon", "alef",
         "hamza">>)>>,
       \* ولدان
       <<Lit(<<"waw", "lam", "dal", "alef", "noon">>)>>,
       \* ولدين
       <<Lit(<<"waw", "lam", "dal", "yeh", "noon">>)>>,
       \* \bوابنا\b
       <<WordBoundary, Lit(<<"waw", "alef", "beh", "noon", "alef">>),
         WordBoundary>>,
       \* \bوابن\b(?!ة)(?!\sعم)(?!\sأخ)(?!\sالابن)
       <<WordBoundary, Lit(<<"waw", "alef", "beh", "noon">>), WordBoundary,
         NotAhead(<<Lit(<<"teh_marbuta">>)>>), NotAhead(<<Space, Lit(<<"ain",
         "meem">>)>>), NotAhead(<<Space, Lit(<<"hamza_alef", "khah">>)>>),
         NotAhead(<<Space, Lit(<<"alef", "lam", "alef", "beh", "noon">>)>>)>>,
       \* و\s+ابنا\b
       <<Lit(<<"waw">>), Spaces1, Lit(<<"alef", "beh", "noon", "alef">>),
         WordBoundary>>,
       \* و\s+ابن\b(?!ة)(?!\sعم)(?!\sأخ)
       <<Lit(<<"waw">>), Spaces1, Lit(<<"alef", "beh", "noon">>),
         WordBoundary, NotAhead(<<Lit(<<"teh_marbuta">>)>>),
         NotAhead(<<Space, Lit(<<"ain", "meem">>)>>), NotAhead(<<Space,
         Lit(<<"hamza_alef", "khah">>)>>)>>,
       \* (?<!بنت\s)(?<!ابن\s)(?<!\s)\bابن\b(?!ة)(?!\sعم)(?!\sأخ)(?!\sالابن)
       <<NotBehind(<<Lit(<<"beh", "noon", "teh">>), Space>>),
         NotBehind(<<Lit(<<"alef", "beh", "noon">>), Space>>),
         NotBehind(<<Space>>), WordBoundary, Lit(<<"alef", "beh", "noon">>),
         WordBoundary, NotAhead(<<Lit(<<"teh_marbuta">>)>>),
         NotAhead(<<Space, Lit(<<"ain", "meem">>)>>), NotAhead(<<Space,
         Lit(<<"hamza_alef", "khah">>)>>), NotAhead(<<Space, Lit(<<"alef",
         "lam", "alef", "beh", "noon">>)>>)>>,
       \* ولد(?!\sابن)
       <<Lit(<<"waw", "lam", "dal">>), NotAhead(<<Space, Lit(<<"alef", "beh",
         "noon">>)>>)>>,
       \* \bولدا\b
       <<WordBoundary, Lit(<<"waw", "lam", "dal", "alef">>), WordBoundary>>
    >>

\* patterns['daughter']: the expressions that name daughters.
daughter_patterns ==
    <<
       \* (\d+)\s*بنات
       <<Digits, Spaces0, Lit(<<"beh", "noon", "alef", "teh">>)>>,
       \* (\d+)\s*بنت
       <<Digits, Spaces0, Lit(<<"beh", "noon", "teh">>)>>,
       \* (ثلاث|أربع|خمس|ست|سبع|ثماني|تسع|عشر)\s*بنات
       <<Alt(<<<<"theh", "lam", "alef", "theh">>, <<"hamza_alef", "reh",
         "beh", "ain">>, <<"khah", "meem", "seen">>, <<"seen", "teh">>,
         <<"seen", "beh", "ain">>, <<"theh", "meem", "alef", "noon", "yeh">>,
         <<"teh", "seen", "ain">>, <<"ain", "sheen", "reh">>>>), Spaces0,
         Lit(<<"beh", "noon", "alef", "teh">>)>>,
       \* (اثنتان|اثنتين)\s*من\s*البنات
       <<Alt(<<<<"alef", "theh", "noon", "teh", "alef", "noon">>, <<"alef",
         "theh", "noon", "teh", "yeh", "noon">>>>), Spaces0, Lit(<<"meem",
         "noon">>), Spaces0, Lit(<<"alef", "lam", "beh", "noon", "alef",
         "teh">>)>>,
       \* بنتان
       <<Lit(<<"beh", "noon", "teh", "alef", "noon">>)>>,
       \* بنتين
       <<Lit(<<"beh", "noon", "teh", "yeh", "noon">>)>>,
       \* \bوبنتا\b(?!\s+ابن)(?!\s+بنت)
       <<WordBoundary, Lit(<<"waw", "beh", "noon", "teh", "alef">>),
         WordBoundary, NotAhead(<<Spaces1, Lit(<<"alef", "beh", "noon">>)>>),
         NotAhead(<<Spaces1, Lit(<<"beh", "noon", "teh">>)>>)>>,
       \* \bوبنت\b(?!\s+ابن)(?!\s+بنت)
       <<WordBoundary, Lit(<<"waw", "beh", "noon", "teh">>), WordBoundary,
         NotAhead(<<Spaces1, Lit(<<"alef", "beh", "noon">>)>>),
         NotAhead(<<Spaces1, Lit(<<"beh", "noon", "teh">>)>>)>>,
       \* و\s+بنتا\b(?!\s+ابن)(?!\s+بنت)
       <<Lit(<<"waw">>), Spaces1, Lit(<<"beh", "noon", "teh", "alef">>),
         WordBoundary, NotAhead(<<Spaces1, Lit(<<"alef", "beh", "noon">>)>>),
         NotAhead(<<Spaces1, Lit(<<"beh", "noon", "teh">>)>>)>>,
       \* و\s+بنت\b(?!\s+ابن)(?!\s+بنت)
       <<Lit(<<"waw">>), Spaces1, Lit(<<"beh", "noon", "teh">>),
         WordBoundary, NotAhead(<<Spaces1, Lit(<<"alef", "beh", "noon">>)>>),
         NotAhead(<<Spaces1, Lit(<<"beh", "noon", "teh">>)>>)>>,
       \* \bبنتا\b(?!\s+ابن)(?!\s+بنت)
       <<WordBoundary, Lit(<<"beh", "noon", "teh", "alef">>), WordBoundary,
         NotAhead(<<Spaces1, Lit(<<"alef", "beh", "noon">>)>>),
         NotAhead(<<Spaces1, Lit(<<"beh", "noon", "teh">>)>>)>>,
       \* (?<!بنت\s)\bبنت\b(?!\s+ابن)(?!\s+بنت)(?!\s+الابن)
       <<NotBehind(<<Lit(<<"beh", "noon", "teh">>), Space>>), WordBoundary,
         Lit(<<"beh", "noon", "teh">>), WordBoundary, NotAhead(<<Spaces1,
         Lit(<<"alef", "beh", "noon">>)>>), NotAhead(<<Spaces1, Lit(<<"beh",
         "noon", "teh">>)>>), NotAhead(<<Spaces1, Lit(<<"alef", "lam",
         "alef", "beh", "noon">>)>>)>>
    >>

\* patterns['brother_full']: the expressions that name full brothers.
brother_full_patterns ==
    <<
       \* (\d+)\s*إخوة\s*أشقاء
       <<Digits, Spaces0, Lit(<<"hamza_below_alef", "khah", "waw",
         "teh_marbuta">>), Spaces0, Lit(<<"hamza_alef", "sheen", "qaf",
         "alef", "hamza">>)>>,
       \* (ثلاثة|أربعة)\s*إخوة\s*أشقاء
       <<Alt(<<<<"theh", "lam", "alef", "theh", "teh_marbuta">>,
         <<"hamza_alef", "reh", "beh", "ain", "teh_marbuta">>>>), Spaces0,
         Lit(<<"hamza_below_alef", "khah", "waw", "teh_marbuta">>), Spaces0,
         Lit(<<"hamza_alef", "sheen", "qaf", "alef", "hamza">>)>>,
       \* (أخوين|أخوان)\s*شقيقين
       <<Alt(<<<<"hamza_alef", "khah", "waw", "yeh", "noon">>,
         <<"hamza_alef", "khah", "waw", "alef", "noon">>>>), Spaces0,
         Lit(<<"sheen", "qaf", "yeh", "qaf", "yeh", "noon">>)>>,
       \* أخ\s*شقيق
       <<Lit(<<"hamza_alef", "khah">>), Spaces0, Lit(<<"sheen", "qaf", "yeh",
         "qaf">>)>>,
       \* \bوأخا\b(?!\sلأب)(?!\sلأم)
       <<WordBoundary, Lit(<<"waw", "hamza_alef", "khah", "alef">>),
         WordBoundary, NotAhead(<<Space, Lit(<<"lam", "hamza_alef",
         "beh">>)>>), NotAhead(<<Space, Lit(<<"lam", "hamza_alef",
         "meem">>)>>)>>,
       \* \bوأخ\b(?!\sلأب)(?!\sلأم)
       <<WordBoundary, Lit(<<"waw", "hamza_alef", "khah">>), WordBoundary,
         NotAhead(<<Space, Lit(<<"lam", "hamza_alef", "beh">>)>>),
         NotAhead(<<Space, Lit(<<"lam", "hamza_alef", "meem">>)>>)>>,
       \* و\s+أخا\b(?!\sلأب)(?!\sلأم)
       <<Lit(<<"waw">>), Spaces1, Lit(<<"hamza_alef", "khah", "alef">>),
         WordBoundary, NotAhead(<<Space, Lit(<<"lam", "hamza_alef",
         "beh">>)>>), NotAhead(<<Space, Lit(<<"lam", "hamza_alef",
         "meem">>)>>)>>,
       \* و\s+أخ\b(?!\sلأب)(?!\sلأم)
       <<Lit(<<"waw">>), Spaces1, Lit(<<"hamza_alef", "khah">>),
         WordBoundary, NotAhead(<<Space, Lit(<<"lam", "hamza_alef",
         "beh">>)>>), NotAhead(<<Space, Lit(<<"lam", "hamza_alef",
         "meem">>)>>)>>,
       \* \bأخا\b(?!\sلأب)(?!\sلأم)
       <<WordBoundary, Lit(<<"hamza_alef", "khah", "alef">>), WordBoundary,
         NotAhead(<<Space, Lit(<<"lam", "hamza_alef", "beh">>)>>),
         NotAhead(<<Space, Lit(<<"lam", "hamza_alef", "meem">>)>>)>>,
       \* (?<!ابن\s)\bأخ\b(?!\sلأب)(?!\sلأم)
       <<NotBehind(<<Lit(<<"alef", "beh", "noon">>), Space>>), WordBoundary,
         Lit(<<"hamza_alef", "khah">>), WordBoundary, NotAhead(<<Space,
         Lit(<<"lam", "hamza_alef", "beh">>)>>), NotAhead(<<Space,
         Lit(<<"lam", "hamza_alef", "meem">>)>>)>>
    >>

\* patterns['sister_full']: the expressions that name full sisters.
sister_full_patterns ==
    <<
       \* (\d+)\s*أخوات\s*شقيقات
       <<Digits, Spaces0, Lit(<<"hamza_alef", "khah", "waw", "alef",
         "teh">>), Spaces0, Lit(<<"sheen", "qaf", "yeh", "qaf", "alef",
         "teh">>)>>,
       \* (أختين|أختان)\s*شقيقتين
       <<Alt(<<<<"hamza_alef", "khah", "teh", "yeh", "noon">>,
         <<"hamza_alef", "khah", "teh", "alef", "noon">>>>), Spaces0,
         Lit(<<"sheen", "qaf", "yeh", "qaf", "teh", "yeh", "noon">>)>>,
       \* أخت\s*شقيقة
       <<Lit(<<"hamza_alef", "khah", "teh">>), Spaces0, Lit(<<"sheen", "qaf",
         "yeh", "qaf", "teh_marbuta">>)>>,
       \* \bأختا\b(?!\sلأب)(?!\sلأم)
       <<WordBoundary, Lit(<<"hamza_alef", "khah", "teh", "alef">>),
         WordBoundary, NotAhead(<<Space, Lit(<<"lam", "hamza_alef",
         "beh">>)>>), NotAhead(<<Space, Lit(<<"lam", "hamza_alef",
         "meem">>)>>)>>,
       \* \bوأختا\b(?!\sلأب)(?!\sلأم)
       <<WordBoundary, Lit(<<"waw", "hamza_alef", "khah", "teh", "alef">>),
         WordBoundary, NotAhead(<<Space, Lit(<<"lam", "hamza_alef",
         "beh">>)>>), NotAhead(<<Space, Lit(<<"lam", "hamza_alef",
         "meem">>)>>)>>,
       \* \bوأخت\b(?!\sلأب)(?!\sلأم)
       <<WordBoundary, Lit(<<"waw", "hamza_alef", "khah", "teh">>),
         WordBoundary, NotAhead(<<Space, Lit(<<"lam", "hamza_alef",
         "beh">>)>>), NotAhead(<<Space, Lit(<<"lam", "hamza_alef",
         "meem">>)>>)>>,
       \* و\s+أختا\b(?!\sلأب)(?!\sلأم)
       <<Lit(<<"waw">>), Spaces1, Lit(<<"hamza_alef", "khah", "teh",
         "alef">>), WordBoundary, NotAhead(<<Space, Lit(<<"lam",
         "hamza_alef", "beh">>)>>), NotAhead(<<Space, Lit(<<"lam",
         "hamza_alef", "meem">>)>>)>>,
       \* و\s+أخت\b(?!\sلأب)(?!\sلأم)
       <<Lit(<<"waw">>), Spaces1, Lit(<<"hamza_alef", "khah", "teh">>),
         WordBoundary, NotAhead(<<Space, Lit(<<"lam", "hamza_alef",
         "beh">>)>>), NotAhead(<<Space, Lit(<<"lam", "hamza_alef",
         "meem">>)>>)>>,
       \* (?<!ابن\s)\bأخت\b(?!\sلأب)(?!\sلأم)
       <<NotBehind(<<Lit(<<"alef", "beh", "noon">>), Space>>), WordBoundary,
         Lit(<<"hamza_alef", "khah", "teh">>), WordBoundary,
         NotAhead(<<Space, Lit(<<"lam", "hamza_alef", "beh">>)>>),
         NotAhead(<<Space, Lit(<<"lam", "hamza_alef", "meem">>)>>)>>
    >>

\* patterns['brother_paternal']: the expressions that name paternal brothers.
brother_paternal_patterns ==
    <<
       \* (\d+)\s*إخوة\s*لأب
       <<Digits, Spaces0, Lit(<<"hamza_below_alef", "khah", "waw",
         "teh_marbuta">>), Spaces0, Lit(<<"lam", "hamza_alef", "beh">>)>>,
       \* أخ\s*لأب
       <<Lit(<<"hamza_alef", "khah">>), Spaces0, Lit(<<"lam", "hamza_alef",
         "beh">>)>>,
       \* أخا\s*لأب
       <<Lit(<<"hamza_alef", "khah", "alef">>), Spaces0, Lit(<<"lam",
         "hamza_alef", "beh">>)>>,
       \* وأخ\s*لأب
       <<Lit(<<"waw", "hamza_alef", "khah">>), Spaces0, Lit(<<"lam",
         "hamza_alef", "beh">>)>>,
       \* وأخا\s*لأب
       <<Lit(<<"waw", "hamza_alef", "khah", "alef">>), Spaces0, Lit(<<"lam",
         "hamza_alef", "beh">>)>>
    >>

\* patterns['sister_paternal']: the expressions that name paternal sisters.
sister_paternal_patterns ==
    <<
       \* (\d+)\s*أخوات\s*لأب
       <<Digits, Spaces0, Lit(<<"hamza_alef", "khah", "waw", "alef",
         "teh">>), Spaces0, Lit(<<"lam", "hamza_alef", "beh">>)>>,
       \* أخت\s*لأب
       <<Lit(<<"hamza_alef", "khah", "teh">>), Spaces0, Lit(<<"lam",
         "hamza_alef", "beh">>)>>,
       \* أختا\s*لأب
       <<Lit(<<"hamza_alef", "khah", "teh", "alef">>), Spaces0, Lit(<<"lam",
         "hamza_alef", "beh">>)>>,
       \* وأخت\s*لأب
       <<Lit(<<"waw", "hamza_alef", "khah", "teh">>), Spaces0, Lit(<<"lam",
         "hamza_alef", "beh">>)>>,
       \* وأختا\s*لأب
       <<Lit(<<"waw", "hamza_alef", "khah", "teh", "alef">>), Spaces0,
         Lit(<<"lam", "hamza_alef", "beh">>)>>
    >>

\* The expressions that name a grandfather.
grandfather_patterns ==
    <<
       \* \bجد\b
       <<WordBoundary, Lit(<<"jeem", "dal">>), WordBoundary>>,
       \* \bجدا\b
       <<WordBoundary, Lit(<<"jeem", "dal", "alef">>), WordBoundary>>,
       \* \bوجد\b
       <<WordBoundary, Lit(<<"waw", "jeem", "dal">>), WordBoundary>>,
       \* \bوجدا\b
       <<WordBoundary, Lit(<<"waw", "jeem", "dal", "alef">>), WordBoundary>>,
       \* و\s+جد\b
       <<Lit(<<"waw">>), Spaces1, Lit(<<"jeem", "dal">>), WordBoundary>>,
       \* و\s+جدا\b
       <<Lit(<<"waw">>), Spaces1, Lit(<<"jeem", "dal", "alef">>),
         WordBoundary>>
    >>

\* The expressions that name a father.
father_patterns ==
    <<
       \* \bأب\b
       <<WordBoundary, Lit(<<"hamza_alef", "beh">>), WordBoundary>>,
       \* \bأبا\b
       <<WordBoundary, Lit(<<"hamza_alef", "beh", "alef">>), WordBoundary>>,
       \* \bوأب\b
       <<WordBoundary, Lit(<<"waw", "hamza_alef", "beh">>), WordBoundary>>,
       \* \bوأبا\b
       <<WordBoundary, Lit(<<"waw", "hamza_alef", "beh", "alef">>),
         WordBoundary>>,
       \* و\s+أب\b
       <<Lit(<<"waw">>), Spaces1, Lit(<<"hamza_alef", "beh">>),
         WordBoundary>>,
       \* و\s+أبا\b
       <<Lit(<<"waw">>), Spaces1, Lit(<<"hamza_alef", "beh", "alef">>),
         WordBoundary>>
    >>

\* The expressions that name a mother.
mother_patterns ==
    <<
       \* \bأم\b
       <<WordBoundary, Lit(<<"hamza_alef", "meem">>), WordBoundary>>,
       \* \bأما\b
       <<WordBoundary, Lit(<<"hamza_alef", "meem", "alef">>), WordBoundary>>,
       \* \bوأم\b
       <<WordBoundary, Lit(<<"waw", "hamza_alef", "meem">>), WordBoundary>>,
       \* \bوأما\b
       <<WordBoundary, Lit(<<"waw", "hamza_alef", "meem", "alef">>),
         WordBoundary>>,
       \* و\s+أم\b
       <<Lit(<<"waw">>), Spaces1, Lit(<<"hamza_alef", "meem">>),
         WordBoundary>>,
       \* و\s+أما\b
       <<Lit(<<"waw">>), Spaces1, Lit(<<"hamza_alef", "meem", "alef">>),
         WordBoundary>>
    >>

\* بنت\s+ابن: a son's daughter.
bint_ibn ==
    <<Lit(<<"beh", "noon", "teh">>), Spaces1, Lit(<<"alef", "beh",
      "noon">>)>>

\* بنت\s+بنت: a daughter's daughter.
bint_bint ==
    <<Lit(<<"beh", "noon", "teh">>), Spaces1, Lit(<<"beh", "noon", "teh">>)>>

\* أخ\s*لأب: a paternal brother, the space optional.
akh_li_ab_loose ==
    <<Lit(<<"hamza_alef", "khah">>), Spaces0, Lit(<<"lam", "hamza_alef",
      "beh">>)>>

\* أخ\s+لأب: a paternal brother.
akh_li_ab ==
    <<Lit(<<"hamza_alef", "khah">>), Spaces1, Lit(<<"lam", "hamza_alef",
      "beh">>)>>

\* أخت\s+لأب: a paternal sister.
ukht_li_ab ==
    <<Lit(<<"hamza_alef", "khah", "teh">>), Spaces1, Lit(<<"lam",
      "hamza_alef", "beh">>)>>

\* جدة: grandmother.
jadda == <<"jeem", "dal", "teh_marbuta">>

\* أبناء: sons (plural).
abnaa == <<"hamza_alef", "beh", "noon", "alef", "hamza">>

\* لأب: by the father.
li_ab == <<"lam", "hamza_alef", "beh">>

\* لأم: by the mother.
li_um == <<"lam", "hamza_alef", "meem">>

\* أخ لأب: the literal handed to extract_number_from_text for paternal brothers.
akh_li_ab_literal == <<"hamza_alef", "khah", " ", "lam", "hamza_alef", "beh">>

\* أخت لأب: the literal handed to extract_number_from_text for paternal sisters.
ukht_li_ab_literal == <<"hamza_alef", "khah", "teh", " ", "lam", "hamza_alef", "beh">>

\* The six test_cases of the detector's __main__; the first three are the
\* test_cases of the calculator's __main__.
detector_test_cases ==
    <<
       \* ترك زوجة وولدان وبنتان
       <<"teh", "reh", "kaf", " ", "zain", "waw", "jeem", "teh_marbuta", " ",
         "waw", "waw", "lam", "dal", "alef", "noon", " ", "waw", "beh",
         "noon", "teh", "alef", "noon">>,
       \* توفي عن زوجة وأب وأم
       <<"teh", "waw", "feh", "yeh", " ", "ain", "noon", " ", "zain", "waw",
         "jeem", "teh_marbuta", " ", "waw", "hamza_alef", "beh", " ", "waw",
         "hamza_alef", "meem">>,
       \* ماتت عن زوج وأب وأم
       <<"meem", "alef", "teh", "teh", " ", "ain", "noon", " ", "zain",
         "waw", "jeem", " ", "waw", "hamza_alef", "beh", " ", "waw",
         "hamza_alef", "meem">>,
       \* ترك زوجة وثلاثة إخوة أشقاء
       <<"teh", "reh", "kaf", " ", "zain", "waw", "jeem", "teh_marbuta", " ",
         "waw", "theh", "lam", "alef", "theh", "teh_marbuta", " ",
         "hamza_below_alef", "khah", "waw", "teh_marbuta", " ", "hamza_alef",
         "sheen", "qaf", "alef", "hamza">>,
       \* توفي عن بنت ابن
       <<"teh", "waw", "feh", "yeh", " ", "ain", "noon", " ", "beh", "noon",
         "teh", " ", "alef", "beh", "noon">>,
       \* ترك بنت بنت
       <<"teh", "reh", "kaf", " ", "beh", "noon", "teh", " ", "beh", "noon",
         "teh">>
    >>

\* The phrases a query is typed from, joined by single spaces.
Phrases ==
    {
       <<"teh", "reh", "kaf">>,   \* ترك
       <<"meem", "alef", "teh", "teh">>,   \* ماتت
       <<"teh", "waw", "feh", "yeh">>,   \* توفي
       <<"ain", "noon">>,   \* عن
       <<"zain", "waw", "jeem", "teh_marbuta">>,   \* زوجة
       <<"zain", "waw", "jeem">>,   \* زوج
       <<"alef", "beh", "noon">>,   \* ابن
       <<"waw", "alef", "beh", "noon">>,   \* وابن
       <<"waw", "lam", "dal", "alef", "noon">>,   \* ولدان
       <<"waw", "lam", "dal", "yeh", "noon">>,   \* ولدين
       <<"alef", "beh", "noon", " ", "alef", "lam", "hamza_alef", "khah">>,   \* ابن الأخ
       <<"theh", "lam", "alef", "theh", "teh_marbuta", " ", "hamza_alef", "beh", "noon", "alef", "hamza">>,   \* ثلاثة أبناء
       <<"2", " ", "beh", "noon", "alef", "teh">>,   \* 2 بنات
       <<"beh", "noon", "teh">>,   \* بنت
       <<"beh", "noon", "teh", "alef", "noon">>,   \* بنتان
       <<"beh", "noon", "teh", "yeh", "noon">>,   \* بنتين
       <<"hamza_alef", "khah">>,   \* أخ
       <<"hamza_alef", "khah", "waw", "alef", "noon", " ", "sheen", "qaf", "yeh", "qaf", "yeh", "noon">>,   \* أخوان شقيقين
       <<"hamza_alef", "khah", "waw", "yeh", "noon", " ", "sheen", "qaf", "yeh", "qaf", "yeh", "noon">>,   \* أخوين شقيقين
       <<"waw", "hamza_alef", "khah", " ", "lam", "hamza_alef", "beh">>,   \* وأخ لأب
       <<"hamza_alef", "beh">>,   \* أب
       <<"waw", "hamza_alef", "meem">>   \* وأم
    }

\* detect_deceased_gender(text) that tests the male markers before the
\* female ones.
detect_deceased_gender_male_first(txt) ==
    IF ContainsAny(male_indicators, lower(txt)) THEN "male"
    ELSE IF ContainsAny(female_indicators, lower(txt)) THEN "female"
    ELSE IF StrContains(zawja, lower(txt)) THEN "male"
    ELSE IF StrContains(zawj, lower(txt)) /\ ~StrContains(zawja, lower(txt))
         THEN "female"
    ELSE "male"

\* detect_deceased_gender(text): 'ذكر' is "male", 'أنثى' is "female".
detect_deceased_gender(txt) ==
    IF ContainsAny(female_indicators, lower(txt)) THEN "female"
    ELSE IF ContainsAny(male_indicators, lower(txt)) THEN "male"
    ELSE IF StrContains(zawja, lower(txt)) THEN "male"
    ELSE IF StrContains(zawj, lower(txt)) /\ ~StrContains(zawja, lower(txt))
         THEN "female"
    ELSE "male"

\* int(digit_match.group()) for a run of digits.
RECURSIVE ToInt(_)
ToInt(ds) ==
    IF ds = <<>> THEN 0
    ELSE 10 * ToInt(SubSeq(ds, 1, Len(ds) - 1)) + DigitValue(ds[Len(ds)])

\* extract_number_from_text(text, pattern_match): the first run of digits,
\* else the first number word of the dictionary the match holds, else 2 for
\* a dual form, else 1.
extract_number_from_text(pattern_match) ==
    LET starts == {i \in 0..(Len(pattern_match) - 1) : IsDigit(pattern_match[i + 1])}
        held == {j \in DOMAIN numbers : StrContains(numbers[j].word, pattern_match)}
    IN  IF starts # {}
        THEN LET i == SetMin(starts)
             IN  ToInt(SubSeq(pattern_match, i + 1, i + DigitRun(pattern_match, i)))
        ELSE IF held # {} THEN numbers[SetMin(held)].num
        ELSE IF ContainsAny(dual_forms, pattern_match) THEN 2
        ELSE 1

\* The loop of detect_sons, detect_daughters, detect_brothers and
\* detect_sisters: the largest count over every match of every pattern.
max_count(pats, txt) ==
    LET counts(p) == LET matches == finditer(pats[p], txt, 0)
                     IN  {extract_number_from_text(matches[m]) : m \in DOMAIN matches}
    IN  SetMax({0} \cup UNION {counts(p) : p \in DOMAIN pats})

\* self.patterns, by key.
patterns ==
    [son |-> son_patterns, daughter |-> daughter_patterns,
     brother_full |-> brother_full_patterns, sister_full |-> sister_full_patterns,
     brother_paternal |-> brother_paternal_patterns,
     sister_paternal |-> sister_paternal_patterns]

detect_sons(txt) == max_count(patterns.son, lower(txt))

detect_daughters(txt) == max_count(patterns.daughter, lower(txt))

detect_brothers(txt) == max_count(patterns.brother_full, lower(txt))

detect_sisters(txt) == max_count(patterns.sister_full, lower(txt))

\* The records appended for a kind counted n times, none when n is 0.
counted(k, n) == IF n > 0 THEN HeirRecords(k, n) ELSE <<>>

\* The records appended for a kind that is present or not.
present(k, b) == IF b THEN HeirRecords(k, 1) ELSE <<>>

\* The spouse step of detect_heirs that looks for both spouses whatever the
\* decedent's gender.
spouse_records_any_gender(txt, gender) ==
    present("SPOUSE_WIFE", ContainsAny(wife_patterns, txt))
    \o present("SPOUSE_HUSBAND", StrContains(zawj, txt))

\* The spouse step of detect_heirs.
spouse_records(txt, gender) ==
    IF gender = "male"
    THEN present("SPOUSE_WIFE", ContainsAny(wife_patterns, txt))
    ELSE present("SPOUSE_HUSBAND", StrContains(zawj, txt) /\ ~StrContains(zawja, txt))

has_grandfather(txt) == \E p \in DOMAIN grandfather_patterns : search(grandfather_patterns[p], txt)

has_father(txt) == \E p \in DOMAIN father_patterns : search(father_patterns[p], txt)

has_mother(txt) == \E p \in DOMAIN mother_patterns : search(mother_patterns[p], txt)

\* The father step of detect_heirs.
father_records(txt) ==
    present("FATHER",
            /\ has_father(txt)
            /\ ~StrContains(abnaa, txt)
            /\ ~StrContains(li_ab, txt)
            /\ ~search(akh_li_ab_loose, txt))

\* detect_heirs(text): the decedent's gender and the list of Heir records,
\* kind after kind.
detect_heirs(txt) ==
    LET text_lower == lower(txt)
        gender == detect_deceased_gender(txt)
    IN  [gender |-> gender,
         heirs |->
            spouse_records(text_lower, gender)
            \o counted("SON", detect_sons(txt))
            \o counted("DAUGHTER", detect_daughters(txt))
            \o present("GRANDDAUGHTER", search(bint_ibn, text_lower))
            \o present("GRANDDAUGHTER_DAUGHTER", search(bint_bint, text_lower))
            \o present("GRANDFATHER",
                       has_grandfather(text_lower) /\ ~StrContains(jadda, text_lower))
            \o father_records(text_lower)
            \o present("MOTHER", has_mother(text_lower) /\ ~StrContains(li_um, text_lower))
            \o counted("BROTHER_FULL", detect_brothers(txt))
            \o counted("SISTER_FULL", detect_sisters(txt))
            \o (IF search(akh_li_ab, text_lower)
                THEN counted("BROTHER_PATERNAL", extract_number_from_text(akh_li_ab_literal))
                ELSE <<>>)
            \o (IF search(ukht_li_ab, text_lower)
                THEN counted("SISTER_PATERNAL", extract_number_from_text(ukht_li_ab_literal))
                ELSE <<>>)]

(***************************************************************************)
(* The detector on a typed query                                           *)
(***************************************************************************)
\* Bound on the number of phrases typed in one run.
MaxPhrases == 2

QueryInit ==
    /\ heirs = <<>>
    /\ steps = <<>>
    /\ reasoning = <<>>
    /\ total_fards = FZero
    /\ results = <<>>
    /\ pc = "text"
    /\ text = <<>>
    /\ typed = 0
    /\ deceased_gender = "none"
    /\ detected_heirs = <<>>
    /\ calculator = 0
    /\ response = NoResponse
    /\ returned = NoReturn

calculator_vars == <<heirs, steps, reasoning, total_fards, results>>

\* pc is "text" while the query is typed and "query" once it is complete.
\* The user types one more phrase of the query.
TypePhrase(w) ==
    /\ pc = "text"
    /\ typed < MaxPhrases
    /\ text' = IF text = <<>> THEN w ELSE text \o <<" ">> \o w
    /\ typed' = typed + 1
    /\ UNCHANGED <<pc, deceased_gender, detected_heirs, calculator, response>>
    /\ UNCHANGED calculator_vars
    /\ UNCHANGED returned

\* The query is one of the test_cases of the detector's __main__.
DetectorTestCase(t) ==
    /\ pc = "text"
    /\ text = <<>>
    /\ text' = detector_test_cases[t]
    /\ pc' = "query"
    /\ UNCHANGED <<typed, deceased_gender, detected_heirs, calculator, response>>
    /\ UNCHANGED calculator_vars
    /\ UNCHANGED returned

\* detector.detect_heirs(text)
DetectHeirs ==
    /\ pc \in {"text", "query"}
    /\ LET r == detect_heirs(text)
       IN  /\ deceased_gender' = r.gender
           /\ detected_heirs' = r.heirs
    /\ pc' = "detected"
    /\ UNCHANGED <<text, typed, calculator, response>>
    /\ UNCHANGED calculator_vars
    /\ UNCHANGED returned

NextDetector ==
    \/ \E w \in Phrases : TypePhrase(w)
    \/ \E t \in DOMAIN detector_test_cases : DetectorTestCase(t)
    \/ DetectHeirs

SpecDetector == QueryInit /\ [][NextDetector]_vars

(***************************************************************************)
(* HeritageSystem.solve                                                    *)
(***************************************************************************)
\* A calculator object that is not the one the field holds.
NewCalculator(old) == IF old = 1 THEN 2 ELSE 1

\* solve that builds a calculator whatever the detector returned.
solve_outcome_always_constructs(hs, calc) ==
    [construct |-> TRUE, calculator |-> NewCalculator(calc)]

\* What solve does with the list the detector returned: with an empty list
\* it returns at once, else it stores a new HeritageCalculator.
solve_outcome(hs, calc) ==
    IF hs = <<>> THEN [construct |-> FALSE, calculator |-> calc]
    ELSE [construct |-> TRUE, calculator |-> NewCalculator(calc)]

\* The dictionary solve returns when no heir was detected.
ErrorResponse ==
    [returned |-> TRUE, error |-> TRUE, results |-> <<>>,
     reasoning |-> << Line("no_heirs_found", NoName, FZero) >>, summary |-> FALSE]

\* The query is one of the test_cases of the calculator's __main__.
system_test_cases == SubSeq(detector_test_cases, 1, 3)

\* The phrases the queries handed to solve are typed from: one that names no
\* heir and five that name one.
SystemPhrases ==
    {
       <<"teh", "reh", "kaf">>,   \* ترك
       <<"zain", "waw", "jeem", "teh_marbuta">>,   \* زوجة
       <<"waw", "alef", "beh", "noon">>,   \* وابن
       <<"beh", "noon", "teh">>,   \* بنت
       <<"hamza_alef", "beh">>,   \* أب
       <<"waw", "hamza_alef", "meem">>   \* وأم
    }

SystemTestCase(t) ==
    /\ pc = "text"
    /\ text = <<>>
    /\ text' = system_test_cases[t]
    /\ pc' = "query"
    /\ UNCHANGED <<typed, deceased_gender, detected_heirs, calculator, response>>
    /\ UNCHANGED calculator_vars
    /\ UNCHANGED returned

\* solve(query) up to its return for an empty detection, or up to the
\* construction of the calculator.
Solve ==
    /\ pc \in {"text", "query"}
    /\ LET r == detect_heirs(text)
           o == solve_outcome(r.heirs, calculator)
       IN  /\ deceased_gender' = r.gender
           /\ detected_heirs' = r.heirs
           /\ calculator' = o.calculator
           /\ IF o.construct
              THEN /\ heirs' = r.heirs
                   /\ steps' = <<>>
                   /\ reasoning' = <<>>
                   /\ pc' = "construct"
                   /\ UNCHANGED <<total_fards, results, response>>
              ELSE /\ response' = ErrorResponse
                   /\ pc' = "returned"
                   /\ UNCHANGED calculator_vars
    /\ UNCHANGED <<text, typed>>
    /\ UNCHANGED returned

\* solve adds the detection summary to what calculate returned and returns.
SolveReturn ==
    /\ pc = "done"
    /\ response' = [returned |-> TRUE, error |-> FALSE, results |-> results,
                    reasoning |-> reasoning, summary |-> TRUE]
    /\ pc' = "returned"
    /\ UNCHANGED <<text, typed, deceased_gender, detected_heirs, calculator>>
    /\ UNCHANGED calculator_vars
    /\ UNCHANGED returned

\* The caller turns to its next query.
NextQuery ==
    /\ pc = "returned"
    /\ text' = <<>>
    /\ pc' = "text"
    /\ UNCHANGED <<typed, deceased_gender, detected_heirs, calculator, response>>
    /\ UNCHANGED calculator_vars
    /\ UNCHANGED returned

NextSystem ==
    \/ \E w \in SystemPhrases : TypePhrase(w)
    \/ \E t \in DOMAIN system_test_cases : SystemTestCase(t)
    \/ Solve
    \/ CalculateStart
    \/ ApplyHijabRules
    \/ CalculateFixedShares
    \/ DistributeAsaba
    \/ SkipAsaba
    \/ BuildResults
    \/ SolveReturn
    \/ NextQuery

SpecSystem == QueryInit /\ [][NextSystem]_vars

(***************************************************************************)
(* Properties                                                              *)
(***************************************************************************)
AfterHijab == pc \in {"fards", "asaba", "results", "done"}
AfterFards == pc \in {"asaba", "results", "done"}

HasLine(tag) == \E n \in DOMAIN reasoning : reasoning[n].tag = tag

InList(k) == \E i \in DOMAIN heirs : heirs[i].relation = k
KindCount(k) == Cardinality({i \in DOMAIN heirs : heirs[i].relation = k})
OfKind(k) == {i \in DOMAIN heirs : heirs[i].relation = k}

Active == {i \in DOMAIN heirs : ~heirs[i].is_blocked}
ActiveKinds == {heirs[i].relation : i \in Active}

SumOver(hs, S) == FSum([j \in DOMAIN SeqOfSet(S) |-> hs[SeqOfSet(S)[j]].share])
ActiveTotal == SumOver(heirs, Active)

WifeCase == Cardinality(Active) = 3 /\ ActiveKinds = {"SPOUSE_WIFE", "FATHER", "MOTHER"}
HusbandCase == Cardinality(Active) = 3 /\ ActiveKinds = {"SPOUSE_HUSBAND", "FATHER", "MOTHER"}

ChildExists == \E i \in Active : heirs[i].relation \in {"SON", "DAUGHTER"}

SiblingKinds ==
    {"BROTHER_FULL", "SISTER_FULL", "BROTHER_PATERNAL", "SISTER_PATERNAL",
     "BROTHER_MATERNAL", "SISTER_MATERNAL"}

\* C1: once the furud step has run, three non-blocked heirs of kinds
\* {wife, father, mother} hold 1/4, 1/2, 1/4, and of kinds {husband, father,
\* mother} hold 1/2, 1/3, 1/6; the shares sum to 1, the trace shows the
\* Umariyyatan lines and neither the general furud pass nor the residue pass.
\* In every other configuration the trace shows the general furud pass and
\* no Umariyyatan line.
C1_Umariyyatayn ==
    AfterFards =>
        /\ WifeCase =>
            /\ \A i \in Active :
                heirs[i].share = (CASE heirs[i].relation = "SPOUSE_WIFE" -> <<1, 4>>
                                    [] heirs[i].relation = "MOTHER" -> <<1, 4>>
                                    [] heirs[i].relation = "FATHER" -> <<1, 2>>)
            /\ ActiveTotal = <<1, 1>>
            /\ total_fards = <<1, 1>>
        /\ HusbandCase =>
            /\ \A i \in Active :
                heirs[i].share = (CASE heirs[i].relation = "SPOUSE_HUSBAND" -> <<1, 2>>
                                    [] heirs[i].relation = "MOTHER" -> <<1, 6>>
                                    [] heirs[i].relation = "FATHER" -> <<1, 3>>)
            /\ ActiveTotal = <<1, 1>>
            /\ total_fards = <<1, 1>>
        /\ (WifeCase \/ HusbandCase) =>
            /\ HasLine("umariyyatayn_header")
            /\ ~HasLine("fards_header")
            /\ ~HasLine("asaba_header")
        /\ ~(WifeCase \/ HusbandCase) =>
            /\ HasLine("fards_header")
            /\ ~HasLine("umariyyatayn_header")

\* C1 witness: calculate has finished on wife, father, mother and a heir the
\* exclusion pass blocked.
C1_Witness ==
    /\ pc = "done"
    /\ WifeCase
    /\ \E i \in DOMAIN heirs : heirs[i].is_blocked
    /\ \E i \in OfKind("FATHER") : heirs[i].share = <<1, 2>>

IsE1 ==
    [i \in DOMAIN heirs |-> heirs[i].relation]
        = <<"SPOUSE_WIFE", "SON", "SON", "DAUGHTER", "DAUGHTER">>

\* C2 as stated: for wife, two sons and two daughters calculate yields
\* wife 1/8, each son 7/48, each daughter 7/96, summing to 1.
C2_Original ==
    (pc = "done" /\ IsE1) =>
        /\ \A i \in OfKind("SPOUSE_WIFE") : heirs[i].share = <<1, 8>>
        /\ \A i \in OfKind("SON") : heirs[i].share = <<7, 48>>
        /\ \A i \in OfKind("DAUGHTER") : heirs[i].share = <<7, 96>>
        /\ ActiveTotal = <<1, 1>>

\* C2 amended: for wife, two sons and two daughters calculate yields
\* wife 1/8, each son 7/24, each daughter 7/48, summing to 1.
C2_E1Shares ==
    (pc = "done" /\ IsE1) =>
        /\ \A i \in OfKind("SPOUSE_WIFE") : heirs[i].share = <<1, 8>>
        /\ \A i \in OfKind("SON") : heirs[i].share = <<7, 24>>
        /\ \A i \in OfKind("DAUGHTER") : heirs[i].share = <<7, 48>>
        /\ ActiveTotal = <<1, 1>>

\* C2 witness: calculate has finished on the list of scenario E1.
C2_Witness ==
    /\ pc = "done"
    /\ IsE1
    /\ HasLine("children_asaba")

\* C3 as stated: after the exclusion pass, a list with a father, or a son,
\* or a grandfather and no father, has every sibling of the six sibling
\* kinds blocked.
C3_Original ==
    AfterHijab =>
        ((InList("FATHER") \/ InList("SON")
            \/ (InList("GRANDFATHER") /\ ~InList("FATHER")))
         => \A i \in DOMAIN heirs :
                heirs[i].relation \in SiblingKinds => heirs[i].is_blocked)

\* C4: a blocked heir has share 0 in every state, and once calculate has
\* finished its entry in the results is the blocked sentinel.
C4_BlockedImpliesZero ==
    /\ \A i \in DOMAIN heirs : heirs[i].is_blocked => heirs[i].share = <<0, 1>>
    /\ pc = "done" =>
        \A i \in DOMAIN heirs :
            heirs[i].is_blocked => results[heirs[i].name] = [sentinel |-> "mahjoub"]

\* C4 witness: calculate has finished on a list where a son is present and
\* the grandfather, who would hold a sixth, is blocked by the father.
C4_Witness ==
    /\ pc = "done"
    /\ InList("SON")
    /\ \E i \in OfKind("GRANDFATHER") : heirs[i].is_blocked

\* What the residue pass adds over all heirs, in a step of that pass.
AsabaAssigned == FSub(SumOver(heirs', DOMAIN heirs), SumOver(heirs, DOMAIN heirs))
Residue == FSub(<<1, 1>>, total_fards)

\* C5 as stated: every run of the residue pass assigns exactly the residue
\* and leaves the shares summing to 1.
C5_Original ==
    [][DistributeAsaba =>
        /\ AsabaAssigned = Residue
        /\ SumOver(heirs', Active) = <<1, 1>>]_vars

\* A non-blocked heir of a residuary group: a son, a father, a grandfather,
\* a full or paternal brother, or a daughter, full sister or paternal sister
\* that holds no fard.
HasResiduary ==
    \E i \in Active :
        \/ heirs[i].relation \in
              {"SON", "FATHER", "GRANDFATHER", "BROTHER_FULL", "BROTHER_PATERNAL"}
        \/ /\ heirs[i].relation \in {"DAUGHTER", "SISTER_FULL", "SISTER_PATERNAL"}
           /\ heirs[i].share = <<0, 1>>

\* C5 amended: every run of the residue pass on a list with a residuary
\* heir assigns exactly the residue and leaves the shares summing to 1.
C5_ResiduePartition ==
    [][(DistributeAsaba /\ HasResiduary) =>
        /\ AsabaAssigned = Residue
        /\ SumOver(heirs', Active) = <<1, 1>>]_vars

\* C5 witness: the residue pass has added the remainder to a fard the
\* father already held.
C5_Witness ==
    /\ pc = "results"
    /\ HasLine("asaba_header")
    /\ HasLine("father_takes_remainder")
    /\ ActiveTotal = <<1, 1>>

IsE6 ==
    /\ Len(heirs) = 3
    /\ KindCount("SPOUSE_HUSBAND") = 1
    /\ KindCount("MOTHER") = 1
    /\ KindCount("DAUGHTER") = 1

\* C6: for husband, mother and one daughter calculate yields 1/4, 1/6 and
\* 1/2, the total distributed is 11/12 and validate_distribution is false.
C6_NoRebalancing ==
    (pc = "done" /\ IsE6) =>
        /\ \A i \in OfKind("SPOUSE_HUSBAND") : heirs[i].share = <<1, 4>>
        /\ \A i \in OfKind("MOTHER") : heirs[i].share = <<1, 6>>
        /\ \A i \in OfKind("DAUGHTER") : heirs[i].share = <<1, 2>>
        /\ get_total_distributed(heirs) = <<11, 12>>
        /\ ~validate_distribution(heirs)
        /\ results[<<"SPOUSE_HUSBAND", 0>>].fraction = "1/4"
        /\ results[<<"MOTHER", 0>>].fraction = "1/6"
        /\ results[<<"DAUGHTER", 0>>].fraction = "1/2"

\* C6 witness: calculate has finished on the list of scenario E6, the
\* residue pass having run on the missing twelfth.
C6_Witness ==
    /\ pc = "done"
    /\ IsE6
    /\ HasLine("asaba_header")
    /\ total_fards = <<11, 12>>

\* C7 as stated: the fraction field of every share record is the numerator,
\* a slash and the denominator, the denominator written also when it is 1.
C7_Original ==
    pc = "done" =>
        \A i \in Active :
            results[heirs[i].name].fraction
                = ToString(heirs[i].share[1]) \o "/" \o ToString(heirs[i].share[2])

\* C8: outside the Umariyyatan cases, once the furud step has run a wife
\* holds 1/8 if a non-blocked son or daughter exists and 1/4 otherwise, a
\* husband 1/4 and 1/2; no other kind counts as a child.
C8_SpouseFard ==
    (AfterFards /\ ~(WifeCase \/ HusbandCase)) =>
        /\ \A i \in OfKind("SPOUSE_WIFE") :
            heirs[i].share = IF ChildExists THEN <<1, 8>> ELSE <<1, 4>>
        /\ \A i \in OfKind("SPOUSE_HUSBAND") :
            heirs[i].share = IF ChildExists THEN <<1, 4>> ELSE <<1, 2>>

\* C8 witness: calculate has finished on a wife with a son's daughter and no
\* son or daughter, the wife holding 1/4.
C8_Witness ==
    /\ pc = "done"
    /\ InList("GRANDDAUGHTER")
    /\ ~InList("SON") /\ ~InList("DAUGHTER")
    /\ \E i \in OfKind("SPOUSE_WIFE") : heirs[i].share = <<1, 4>>

\* C9: once the furud step has run, with no son in the list a single
\* daughter holds 1/2 and N >= 2 daughters hold (2/3)/N each, 2/3 together;
\* with a son in the list every daughter still holds 0 when the residue pass
\* is about to start.
C9_DaughterFard ==
    AfterFards =>
        LET D == OfKind("DAUGHTER")
            N == Cardinality(D)
        IN  /\ (~InList("SON") /\ N = 1) => \A i \in D : heirs[i].share = <<1, 2>>
            /\ (~InList("SON") /\ N >= 2) =>
                /\ \A i \in D : heirs[i].share = Fraction(2, 3 * N)
                /\ SumOver(heirs, D) = <<2, 3>>
            /\ (InList("SON") /\ pc = "asaba") => \A i \in D : heirs[i].share = <<0, 1>>

\* C9 witness: the furud step has run on two daughters and no son, each
\* holding 1/3.
C9_Witness ==
    /\ pc = "asaba"
    /\ KindCount("DAUGHTER") = 2
    /\ ~InList("SON")
    /\ \A i \in OfKind("DAUGHTER") : heirs[i].share = <<1, 3>>

\* C10 as stated: outside the Umariyyatan cases, once the furud step has
\* run a mother holds 1/6 if a non-blocked son or daughter exists or at
\* least two non-blocked heirs are of the six sibling kinds, and 1/3
\* otherwise.
C10_Original ==
    (AfterFards /\ ~(WifeCase \/ HusbandCase)) =>
        \A i \in OfKind("MOTHER") :
            heirs[i].share =
                IF \/ ChildExists
                   \/ Cardinality({j \in Active : heirs[j].relation \in SiblingKinds}) >= 2
                THEN <<1, 6>> ELSE <<1, 3>>

\* The fathers, and the grandfathers of a list without father.
Elders ==
    {i \in Active :
        \/ heirs[i].relation = "FATHER"
        \/ heirs[i].relation = "GRANDFATHER" /\ ~InList("FATHER")}

\* The first non-blocked father, else the first non-blocked grandfather.
Elder ==
    LET F == IF Active \cap OfKind("FATHER") # {} THEN Active \cap OfKind("FATHER")
             ELSE Active \cap OfKind("GRANDFATHER")
    IN  CHOOSE i \in F : \A j \in F : i <= j

ElderFard == IF ChildExists THEN <<1, 6>> ELSE <<0, 1>>

\* What C11 says of the furud pass and of the residue pass.
ElderShares ==
    /\ pc = "asaba" => \A i \in Elders : heirs[i].share = ElderFard
    /\ (pc \in {"results", "done"} /\ Elders # {} /\ ~InList("SON") /\ FPos(Residue)) =>
          heirs[Elder].share = FAdd(ElderFard, Residue)

\* C11 as stated: when the residue pass is about to start a non-blocked
\* father (a grandfather when no father is in the list) holds 1/6 if a
\* non-blocked son or daughter exists and 0 otherwise; after the pass, with
\* no son in the list and a positive residue, he holds that fard plus the
\* whole residue.
C11_Original == ElderShares

\* C11 amended: the same, outside the Umariyyatan cases.
C11_ElderShares == ~(WifeCase \/ HusbandCase) => ElderShares

\* C11 witness: calculate has finished on one daughter and a grandfather,
\* who holds his sixth and the residue of a third.
C11_Witness ==
    /\ pc = "done"
    /\ KindCount("DAUGHTER") = 1
    /\ ~InList("FATHER")
    /\ HasLine("grandfather_takes_remainder")
    /\ \E i \in OfKind("GRANDFATHER") : heirs[i].share = <<1, 2>>

\* The residuary groups in their order of priority, as the heirs stand when
\* the residue pass is about to start.
ResidueGroup(g) ==
    CASE g = 1 -> {i \in Active :
                     \/ heirs[i].relation = "SON"
                     \/ heirs[i].relation = "DAUGHTER" /\ heirs[i].share = <<0, 1>>}
      [] g = 2 -> Active \cap OfKind("FATHER")
      [] g = 3 -> Active \cap OfKind("GRANDFATHER")
      [] g = 4 -> Active \cap (OfKind("BROTHER_FULL") \cup OfKind("SISTER_FULL"))
      [] g = 5 -> Active \cap (OfKind("BROTHER_PATERNAL") \cup OfKind("SISTER_PATERNAL"))
      [] OTHER -> {}

\* The first group with a member; 0 when every group is empty.
FirstGroup ==
    IF \A g \in 1..5 : ResidueGroup(g) = {} THEN 0
    ELSE CHOOSE g \in 1..5 :
            ResidueGroup(g) # {} /\ \A e \in 1..(g - 1) : ResidueGroup(e) = {}

\* C12: a step of the residue pass changes the share of no heir outside the
\* first group, in the order children, father, grandfather, full siblings,
\* paternal siblings, that has a non-blocked member, and that group
\* receives the whole residue.
C12_ExclusivePriority ==
    [][DistributeAsaba =>
        /\ \A i \in DOMAIN heirs :
              i \notin ResidueGroup(FirstGroup) => heirs'[i].share = heirs[i].share
        /\ FirstGroup # 0 =>
              FSub(SumOver(heirs', ResidueGroup(FirstGroup)),
                   SumOver(heirs, ResidueGroup(FirstGroup))) = Residue]_vars

\* C12 witness: the residue pass has run on a list with a son and a father,
\* the children taking the residue and the father keeping his sixth.
C12_Witness ==
    /\ pc = "results"
    /\ HasLine("children_asaba")
    /\ InList("SON")
    /\ \E i \in OfKind("FATHER") : heirs[i].share = <<1, 6>>

\* C13: once calculate has finished all non-blocked sons hold the same share
\* and all non-blocked daughters hold the same share; and a step of the
\* residue pass whose consuming group is the children, the full siblings or
\* the paternal siblings leaves each male of the group with two units and
\* each female with one, the unit being residue / (2 * males + females).
C13_EqualTwoToOne ==
    /\ [](pc = "done" =>
            /\ \A i, j \in Active \cap OfKind("SON") : heirs[i].share = heirs[j].share
            /\ \A i, j \in Active \cap OfKind("DAUGHTER") : heirs[i].share = heirs[j].share)
    /\ [][(DistributeAsaba /\ FirstGroup \in {1, 4, 5}) =>
            LET G == ResidueGroup(FirstGroup)
                M == {i \in G : heirs[i].gender = "male"}
                F == G \ M
                unit == Fraction(Residue[1], Residue[2] * (2 * Cardinality(M) + Cardinality(F)))
            IN  /\ \A i \in M : heirs'[i].share = Fraction(2 * unit[1], unit[2])
                /\ \A i \in F : heirs'[i].share = unit]_vars

\* C13 witness: the residue pass has run on full brothers and full sisters
\* only, a brother holding twice a sister's share.
C13_Witness ==
    /\ pc = "results"
    /\ HasLine("full_asaba")
    /\ \E i \in OfKind("BROTHER_FULL") : \E j \in OfKind("SISTER_FULL") :
          /\ FPos(heirs[j].share)
          /\ heirs[i].share = Fraction(2 * heirs[j].share[1], heirs[j].share[2])

\* The heirs of the six sibling kinds, blocked or not.
Siblings == {i \in DOMAIN heirs : heirs[i].relation \in SiblingKinds}

\* C18 as stated: once the furud step has run, a mother with no son or
\* daughter and two or more siblings in the list, blocked or not, holds 1/6.
C18_Original ==
    AfterFards =>
        \A i \in OfKind("MOTHER") :
            (~ChildExists /\ Cardinality(Siblings) >= 2) => heirs[i].share = <<1, 6>>

\* C18 amended: outside the Umariyyatan cases, once the furud step has run,
\* a mother with no son or daughter and two or more siblings in the list,
\* all of them blocked, holds 1/3, unless two or more non-blocked brother's
\* sons are in the list.
C18_BlockedSiblingsNotCounted ==
    (AfterFards /\ ~(WifeCase \/ HusbandCase)) =>
        \A i \in OfKind("MOTHER") :
            ( /\ ~ChildExists
              /\ Cardinality(Siblings) >= 2
              /\ Siblings \cap Active = {}
              /\ Cardinality(Active \cap OfKind("NEPHEW")) < 2 )
            => heirs[i].share = <<1, 3>>

\* C18 witness: calculate has finished on a grandfather, a mother and two
\* full brothers the grandfather blocks, the mother holding 1/3.
C18_Witness ==
    /\ pc = "done"
    /\ InList("GRANDFATHER")
    /\ KindCount("BROTHER_FULL") = 2
    /\ \A i \in OfKind("BROTHER_FULL") : heirs[i].is_blocked
    /\ \E i \in OfKind("MOTHER") : heirs[i].share = <<1, 3>>

\* The kinds no exclusion rule names.
NeverBlockedKinds ==
    {"SPOUSE_WIFE", "SPOUSE_HUSBAND", "SON", "DAUGHTER", "FATHER", "MOTHER",
     "GRANDDAUGHTER", "GRANDDAUGHTER_DAUGHTER"}

\* C20: after the exclusion pass a grandfather is blocked exactly when a
\* father is in the list; no wife, husband, son, daughter, father, mother,
\* son's daughter or daughter's daughter is blocked in any state; and the
\* trace holds the no-exclusion line exactly when no heir is blocked.
C20_Rule1AndClosure ==
    /\ \A i \in DOMAIN heirs :
          heirs[i].relation \in NeverBlockedKinds => ~heirs[i].is_blocked
    /\ AfterHijab =>
          /\ \A i \in OfKind("GRANDFATHER") : heirs[i].is_blocked <=> InList("FATHER")
          /\ HasLine("no_hijab") <=> (\A i \in DOMAIN heirs : ~heirs[i].is_blocked)

\* C20 witness: the exclusion pass has run on a list with a father and a
\* grandfather, the grandfather blocked and the no-exclusion line absent.
C20_Witness ==
    /\ pc = "fards"
    /\ InList("FATHER")
    /\ \E i \in OfKind("GRANDFATHER") : heirs[i].is_blocked
    /\ ~HasLine("no_hijab")

(***************************************************************************)
(* Properties of the detector and of solve                                 *)
(***************************************************************************)
Detected == pc = "detected"

\* The records of kind k in the list the detector built.
DetectedOfKind(k) == SelectSeq(detected_heirs, LAMBDA h : h.relation = k)

FemaleMarker == ContainsAny(female_indicators, text)
MaleMarker == ContainsAny(male_indicators, text)
WifeWord == StrContains(zawja, text)
HusbandWord == StrContains(zawj, text)

\* C14: the decedent's gender is decided by the first test that applies, in
\* this order: a female marker in the text gives female, also when a male
\* marker stands in the text too; else a male marker (the preposition "عن"
\* among them) gives male; else the word wife gives male; else the word
\* husband without the word wife gives female; else male.
C14_GenderOrder ==
    Detected =>
       /\ FemaleMarker => deceased_gender = "female"
       /\ ~FemaleMarker /\ MaleMarker => deceased_gender = "male"
       /\ ~FemaleMarker /\ ~MaleMarker /\ WifeWord => deceased_gender = "male"
       /\ ~FemaleMarker /\ ~MaleMarker /\ ~WifeWord /\ HusbandWord
             => deceased_gender = "female"
       /\ ~FemaleMarker /\ ~MaleMarker /\ ~WifeWord /\ ~HusbandWord
             => deceased_gender = "male"

\* "ماتت عن ...": a female verb and the preposition "عن" in one text.
C14_Witness ==
    /\ Detected
    /\ StrContains(female_indicators[2] \o <<" ">> \o male_indicators[7], text)
    /\ deceased_gender = "female"

\* C15: the list detect_heirs returns holds at most one spouse record; a
\* wife only when the decedent was inferred male, a husband only when female.
C15_AtMostOneSpouse ==
    Detected =>
       /\ Len(DetectedOfKind("SPOUSE_WIFE")) + Len(DetectedOfKind("SPOUSE_HUSBAND")) <= 1
       /\ DetectedOfKind("SPOUSE_WIFE") # <<>> => deceased_gender = "male"
       /\ DetectedOfKind("SPOUSE_HUSBAND") # <<>> => deceased_gender = "female"

\* "زوج زوجة": both words typed, one spouse detected.
C15_Witness ==
    /\ Detected
    /\ StrContains(zawj \o <<" ">> \o zawja, text)
    /\ Len(DetectedOfKind("SPOUSE_WIFE")) + Len(DetectedOfKind("SPOUSE_HUSBAND")) = 1

\* A step of solve from the query to its return or to the calculation.
SolveStep == pc \in {"text", "query"} /\ pc' \notin {"text", "query"}

\* C16: when detect_heirs returns an empty list, solve returns (it raises
\* nothing) a result with the error marker, an empty results mapping and one
\* reasoning line; it builds no calculator, and the calculator field and the
\* calculator it holds stay as they were.
C16_EmptyDetection ==
    [][ SolveStep /\ detected_heirs' = <<>> =>
           /\ pc' = "returned"
           /\ response'.returned /\ response'.error
           /\ DOMAIN response'.results = {}
           /\ Len(response'.reasoning) = 1
           /\ calculator' = calculator
           /\ UNCHANGED calculator_vars ]_vars

\* An empty detection after an earlier query gave the system a calculator.
C16_Witness ==
    /\ pc = "returned"
    /\ detected_heirs = <<>>
    /\ response.error
    /\ calculator # 0
    /\ heirs # <<>>

\* ابن الأخ
ibn_al_akh == <<"alef", "beh", "noon", " ", "alef", "lam", "hamza_alef", "khah">>

\* C17: a text that is only the nephew phrase "ابن الأخ" makes detect_heirs
\* emit no heir of kind son.
C17_Original ==
    Detected /\ text = ibn_al_akh => DetectedOfKind("SON") = <<>>

\* أخوان شقيقين and أخوين شقيقين
akhawan_shaqiqayn == <<"hamza_alef", "khah", "waw", "alef", "noon", " ", "sheen", "qaf", "yeh", "qaf", "yeh", "noon">>
akhawayn_shaqiqayn == <<"hamza_alef", "khah", "waw", "yeh", "noon", " ", "sheen", "qaf", "yeh", "qaf", "yeh", "noon">>

\* C19: a text that names sons with ولدان or ولدين, daughters with بنتان or
\* بنتين, full brothers with أخوان شقيقين or أخوين شقيقين makes detect_heirs
\* emit exactly two records of that kind, named with the suffixes 1 and 2.
C19_Original ==
    Detected =>
       /\ StrContains(dual_forms[1], text) \/ StrContains(dual_forms[2], text)
             => DetectedOfKind("SON") = HeirRecords("SON", 2)
       /\ StrContains(dual_forms[3], text) \/ StrContains(dual_forms[4], text)
             => DetectedOfKind("DAUGHTER") = HeirRecords("DAUGHTER", 2)
       /\ StrContains(akhawan_shaqiqayn, text) \/ StrContains(akhawayn_shaqiqayn, text)
             => DetectedOfKind("BROTHER_FULL") = HeirRecords("BROTHER_FULL", 2)

(***************************************************************************)
(* Exclusion rule 3, father detection, completeness with a son, and a      *)
(* second run of calculate                                                 *)
(***************************************************************************)
PaternalSiblings == OfKind("BROTHER_PATERNAL") \cup OfKind("SISTER_PATERNAL")

Rule2BlockerInList == InList("FATHER") \/ InList("SON") \/ InList("GRANDFATHER")

\* C21: after the exclusion pass, a list with a full brother has every
\* paternal brother and paternal sister blocked, also without father, son
\* or grandfather; with a full sister and no full brother (and none of
\* father, son, grandfather) no paternal sibling is blocked, and no line of
\* the trace names the full brother as a blocker.
C21_Rule3 ==
    AfterHijab =>
       /\ InList("BROTHER_FULL") => \A i \in PaternalSiblings : heirs[i].is_blocked
       /\ ~InList("BROTHER_FULL") =>
             /\ ~Rule2BlockerInList => \A i \in PaternalSiblings : ~heirs[i].is_blocked
             /\ \A n \in DOMAIN reasoning : reasoning[n].by # "BROTHER_FULL"

\* A full brother blocks a paternal sibling with no father, son or
\* grandfather in the list.
C21_Witness ==
    /\ pc = "fards"
    /\ InList("BROTHER_FULL")
    /\ ~Rule2BlockerInList
    /\ PaternalSiblings # {}
    /\ \A i \in PaternalSiblings : heirs[i].is_blocked

\* C22: a text with a standalone father token (أب or أبا, alone or after
\* "و", never the "لأب" that qualifies a sibling) makes detect_heirs emit
\* exactly one father, whatever other relatives the text names, a paternal
\* sibling ("أخ لأب") or a plural of sons ("أبناء") among them.
C22_Original ==
    Detected /\ has_father(text) => Len(DetectedOfKind("FATHER")) = 1

\* The kinds detect_heirs emits.
EmittedKinds == {KindOrder[i] : i \in 1..13}

\* A list as the detector produces them: emitted kinds only, at most one
\* spouse, one father, one mother and one grandfather.
DetectorList ==
    /\ \A i \in DOMAIN heirs : heirs[i].relation \in EmittedKinds
    /\ KindCount("SPOUSE_WIFE") + KindCount("SPOUSE_HUSBAND") <= 1
    /\ KindCount("FATHER") <= 1
    /\ KindCount("MOTHER") <= 1
    /\ KindCount("GRANDFATHER") <= 1

\* C23: for a list as the detector produces them that holds a son, the furud
\* total is strictly less than 1, the residue pass runs, every son and every
\* daughter ends with a strictly positive share, and the shares of the
\* non-blocked heirs sum to exactly 1.
C23_SonComplete ==
    (DetectorList /\ InList("SON")) =>
       /\ AfterFards => FPos(Residue)
       /\ pc = "asaba" => runs_asaba(heirs, total_fards)
       /\ pc \in {"results", "done"} =>
             /\ HasLine("asaba_header")
             /\ \A i \in OfKind("SON") \cup OfKind("DAUGHTER") : FPos(heirs[i].share)
             /\ validate_distribution(heirs)

\* A son and a daughter beside a spouse and a parent holding their furud.
C23_Witness ==
    /\ pc = "done"
    /\ DetectorList
    /\ InList("SON") /\ InList("DAUGHTER")
    /\ InList("SPOUSE_HUSBAND") /\ InList("MOTHER")
    /\ validate_distribution(heirs)

\* The second call of calculate on the same calculator has returned.
SecondReturn == pc = "done" /\ returned.called

\* C24: a second call of calculate on the same calculator returns the results
\* mapping of the first call and leaves every heir's share and blocked flag
\* as the first call left them.
C24_Original ==
    SecondReturn =>
       /\ results = returned.results
       /\ \A i \in DOMAIN heirs :
             /\ heirs[i].share = returned.heirs[i].share
             /\ heirs[i].is_blocked = returned.heirs[i].is_blocked

=============================================================================
